---- MODULE Spec2Model ----
(***************************************************************************)
(* Model of the lithos coordination service                                *)
(* (src/src/lithos/coordination.py): the agents, tasks and claims tables   *)
(* of the SQLite store and the CoordinationService calls that read and     *)
(* write them.  Every call opens its own connection, so the calls of       *)
(* several callers interleave statement by statement; a write statement    *)
(* and the commit that follows it take effect as one step, because SQLite  *)
(* holds the write lock from the statement to the commit.                  *)
(***************************************************************************)
EXTENDS Integers, Sequences, FiniteSets, TLC

-----------------------------------------------------------------------------
(* Bounds and configuration                                                *)

\* The clock advances at most MaxNow ticks.
MaxNow == 2

\* Clock resolution: ticks per minute.  The sub-minute part of an instant
\* stands for the seconds and microseconds of a datetime.
TicksPerMinute == 2

\* CoordinationConfig.claim_max_ttl_minutes of the service under analysis
\* (the default configuration sets 480).
claim_max_ttl_minutes == 2

\* The ttl_minutes callers request: a negative one, zero, one minute, the
\* ceiling and one minute more than the ceiling.
TtlValues == {0 - 1, 0, 1, claim_max_ttl_minutes, claim_max_ttl_minutes + 1}

AgentIds == {"A", "B"}
TaskIds == {"T1"}
Aspects == {"research"}
Procs == {"p1", "p2"}

\* None of Python: a value that may be None is a sequence of length at most
\* one, <<>> for None and <<v>> for v.
None == <<>>
Some(v) == <<v>>

-----------------------------------------------------------------------------
(* Datetimes and their stored text                                         *)

\* Character codes of the text SQLite stores and compares bytewise.
ChPlus == 43
ChDot == 46
ChColon == 58
ChZero == 48
ChMinus == 45

\* Digits of the whole-minute field and of the sub-minute field; isoformat
\* writes every field at a fixed width.
WholeWidth == 2
FracWidth == 1

RECURSIVE Pow10(_)
Pow10(n) == IF n = 0 THEN 1 ELSE 10 * Pow10(n - 1)

\* n as w decimal digits, zero padded.
Digits(n, w) == [i \in 1..w |-> ChZero + ((n \div Pow10(w - i)) % 10)]

\* The UTC offset "+00:00" every stored instant carries.
UtcOffset == <<ChPlus, ChZero, ChZero, ChColon, ChZero, ChZero>>

\* _format_datetime: dt.isoformat().  The fraction is written only when it
\* is not zero.
FormatDatetime(dt) ==
    LET whole == dt \div TicksPerMinute
        frac == dt % TicksPerMinute
    IN Digits(whole, WholeWidth)
       \o (IF frac = 0 THEN <<>> ELSE <<ChDot>> \o Digits(frac, FracWidth))
       \o UtcOffset

RECURSIVE DigitsValue(_)
DigitsValue(s) ==
    IF s = <<>> THEN 0
    ELSE 10 * DigitsValue(SubSeq(s, 1, Len(s) - 1)) + (s[Len(s)] - ChZero)

IsDigits(s) == \A i \in 1..Len(s) : s[i] \in ChZero..(ChZero + 9)

\* _parse_datetime: datetime.fromisoformat(value); None when the value is
\* NULL or is not an ISO datetime.
ParseDatetime(value) ==
    IF value = <<>> THEN None
    ELSE LET n == Len(value)
             hasFrac == n = WholeWidth + 1 + FracWidth + Len(UtcOffset)
             noFrac == n = WholeWidth + Len(UtcOffset)
             wholeTxt == SubSeq(value, 1, WholeWidth)
             fracTxt == SubSeq(value, WholeWidth + 2, WholeWidth + 1 + FracWidth)
             tail == SubSeq(value, n - Len(UtcOffset) + 1, n)
         IN IF noFrac /\ IsDigits(wholeTxt) /\ tail = UtcOffset
            THEN Some(DigitsValue(wholeTxt) * TicksPerMinute)
            ELSE IF hasFrac /\ IsDigits(wholeTxt) /\ value[WholeWidth + 1] = ChDot
                    /\ IsDigits(fracTxt) /\ tail = UtcOffset
            THEN Some(DigitsValue(wholeTxt) * TicksPerMinute + DigitsValue(fracTxt))
            ELSE None

\* SQLite's comparison of two TEXT values (memcmp, then length): a > b.
TextGT(a, b) ==
    LET m == IF Len(a) < Len(b) THEN Len(a) ELSE Len(b)
        diff == {i \in 1..m : a[i] # b[i]}
    IN IF diff = {} THEN Len(a) > Len(b)
       ELSE LET k == CHOOSE i \in diff : \A j \in diff : i <= j
            IN a[k] > b[k]

\* Mutant of Minutes: the ttl is taken in the clock's unit, not in minutes.
Minutes_AsTicks(m) == m

\* timedelta(minutes=m), in ticks.
Minutes(m) == m * TicksPerMinute

\* The clock's first reading: late enough for now + timedelta(minutes=-1) to
\* be an instant of the model.
StartNow == Minutes(1)

\* Mutant of ClampTtl: the requested ttl_minutes is used as it is.
ClampTtl_Unclamped(ttl_minutes) == ttl_minutes

\* min(ttl_minutes, max_ttl)
ClampTtl(ttl_minutes) ==
    IF ttl_minutes < claim_max_ttl_minutes THEN ttl_minutes ELSE claim_max_ttl_minutes

-----------------------------------------------------------------------------
(* The store and the calls in flight                                       *)

VARIABLES
    now,      \* the clock datetime.now(timezone.utc) reads
    agents,   \* rows of table agents
    tasks,    \* rows of table tasks
    claims,   \* rows of table claims
    findings, \* rows of table findings
    call,     \* per caller: the call in flight and its locals
    granted   \* history: the leases callers were told they hold

vars == <<now, agents, tasks, claims, findings, call, granted>>

Ops == {"create_task", "complete_task", "claim_task", "renew_claim", "release_claim"}

\* A caller between two calls.  The fields from existing to wrote are
\* history: the key's rows (agent, expires_at) when the call read or deleted
\* them, the branch it took, whether another agent's claim
\* wrote the key's row between this call's read of it and this call's write
\* (raced), and, once the call has returned, whether it reported success,
\* the expires_at it returned and whether it changed the store (wrote).
\* The fields after wrote are the arguments and locals of register_agent,
\* get_task_status, get_stats and post_finding: the optional task_id filter
\* (arg), register_agent's name, agent_type and metadata, its exists, the
\* task rows a reader fetched (rows), the value the call returns (result)
\* and whether it ended in an exception (error).  touched is history:
\* whether the call's ensure_agent_known changed the agents table, kept
\* where the specification asks for it.  txn is the connection's open
\* transaction: the tasks and claims tables as its uncommitted statements
\* leave them; left_at is history: the statement an abandoned call had
\* reached.
IdleCall ==
    [pc |-> "idle", op |-> "none", task_id |-> "none", aspect |-> "none",
     agent |-> "none", ttl_minutes |-> 0, seen_now |-> 0, now |-> 0,
     expires_at |-> 0, existing |-> {}, branch |-> "none", raced |-> FALSE,
     success |-> FALSE, returned |-> None, wrote |-> FALSE,
     arg |-> None, name |-> None, agent_type |-> None, metadata |-> None,
     exists |-> FALSE, rows |-> {}, result |-> {}, error |-> FALSE,
     touched |-> FALSE, txn |-> None, left_at |-> "none"]

\* The call with locals c has returned.
Returned(c, success, wrote) ==
    [c EXCEPT !.pc = "done", !.success = success, !.wrote = wrote,
              !.returned = IF success /\ c.op \in {"claim_task", "renew_claim"}
                           THEN Some(c.expires_at) ELSE None]

\* ---- SQL statements on table claims ----

\* SELECT ... FROM claims WHERE task_id = ? AND aspect = ?
SelectClaim(cl, task_id, aspect) ==
    {r \in cl : r.task_id = task_id /\ r.aspect = aspect}

\* Mutant of SelectLiveClaim: expires_at >= ? in place of expires_at > ?.
SelectLiveClaim_Inclusive(cl, task_id, aspect, nowText) ==
    {r \in cl : r.task_id = task_id /\ r.aspect = aspect
                /\ ~TextGT(nowText, r.expires_at)}

\* SELECT agent FROM claims WHERE task_id = ? AND aspect = ? AND expires_at > ?
SelectLiveClaim(cl, task_id, aspect, nowText) ==
    {r \in cl : r.task_id = task_id /\ r.aspect = aspect /\ TextGT(r.expires_at, nowText)}

\* cursor.fetchone(): a row of the result, or None.
FetchOne(rows) == IF rows = {} THEN {} ELSE {CHOOSE r \in rows : TRUE}

\* Mutant of UniqueViolation: the table has no UNIQUE(task_id, aspect).
UniqueViolation_Off(cl, task_id, aspect) == FALSE

\* UNIQUE(task_id, aspect): an insert of a second row for the key raises
\* IntegrityError.
UniqueViolation(cl, task_id, aspect) ==
    \E r \in cl : r.task_id = task_id /\ r.aspect = aspect

\* Mutant of InsertClaim: the row is not stored.
InsertClaim_Skip(cl, task_id, agent, aspect, claimed_at, expires_at) == cl

\* INSERT INTO claims (task_id, agent, aspect, claimed_at, expires_at)
InsertClaim(cl, task_id, agent, aspect, claimed_at, expires_at) ==
    cl \cup {[task_id |-> task_id, agent |-> agent, aspect |-> aspect,
              claimed_at |-> claimed_at, expires_at |-> expires_at]}

\* Mutant of UpdateExpiry: the statement sets claimed_at too.
UpdateExpiry_Restamp(cl, task_id, aspect, expires_at) ==
    {IF r.task_id = task_id /\ r.aspect = aspect
     THEN [r EXCEPT !.expires_at = expires_at, !.claimed_at = expires_at] ELSE r : r \in cl}

\* UPDATE claims SET expires_at = ? WHERE task_id = ? AND aspect = ?
UpdateExpiry(cl, task_id, aspect, expires_at) ==
    {IF r.task_id = task_id /\ r.aspect = aspect
     THEN [r EXCEPT !.expires_at = expires_at] ELSE r : r \in cl}

\* Mutant of UpdateOwner: AND aspect = ? is left out.
UpdateOwner_WholeTask(cl, task_id, aspect, agent, expires_at, claimed_at) ==
    {IF r.task_id = task_id
     THEN [r EXCEPT !.agent = agent, !.expires_at = expires_at,
                    !.claimed_at = claimed_at]
     ELSE r : r \in cl}

\* UPDATE claims SET agent = ?, expires_at = ?, claimed_at = ?
\* WHERE task_id = ? AND aspect = ?
UpdateOwner(cl, task_id, aspect, agent, expires_at, claimed_at) ==
    {IF r.task_id = task_id /\ r.aspect = aspect
     THEN [r EXCEPT !.agent = agent, !.expires_at = expires_at,
                    !.claimed_at = claimed_at]
     ELSE r : r \in cl}

\* Mutant of ReleaseMatch: AND agent = ? is left out.
ReleaseMatch_AnyAgent(cl, task_id, aspect, agent) ==
    {r \in cl : r.task_id = task_id /\ r.aspect = aspect}

\* The rows DELETE FROM claims WHERE task_id = ? AND aspect = ? AND agent = ?
\* removes.
ReleaseMatch(cl, task_id, aspect, agent) ==
    {r \in cl : r.task_id = task_id /\ r.aspect = aspect /\ r.agent = agent}

\* Mutant of SelectLiveTaskClaims: the expires_at condition is left out.
SelectLiveTaskClaims_All(cl, task_id, nowText) == {r \in cl : r.task_id = task_id}

\* SELECT * FROM claims WHERE task_id = ? AND expires_at > ?
SelectLiveTaskClaims(cl, task_id, nowText) ==
    {r \in cl : r.task_id = task_id /\ TextGT(r.expires_at, nowText)}

\* Mutant of DeleteTaskClaims: the task's claim rows are kept.
DeleteTaskClaims_Keep(cl, task_id) == cl

\* DELETE FROM claims WHERE task_id = ?
DeleteTaskClaims(cl, task_id) == {r \in cl : r.task_id # task_id}

\* ---- SQL statements on tables agents and tasks ----

\* Mutant of UpsertAgent: no agent row is written.
UpsertAgent_Skip(ag, agent_id, nowText) == ag

\* Mutant of UpsertAgent: the agent's row is replaced by a fresh one.
UpsertAgent_Replace(ag, agent_id, nowText) ==
    {r \in ag : r.id # agent_id}
    \cup {[id |-> agent_id, name |-> None, type |-> None, metadata |-> None,
            first_seen_at |-> nowText, last_seen_at |-> nowText]}

\* UPDATE agents SET last_seen_at = ? WHERE id = ?; INSERT when no row matched.
UpsertAgent(ag, agent_id, nowText) ==
    IF \E r \in ag : r.id = agent_id
    THEN {IF r.id = agent_id THEN [r EXCEPT !.last_seen_at = nowText] ELSE r : r \in ag}
    ELSE ag \cup {[id |-> agent_id, name |-> None, type |-> None, metadata |-> None,
                    first_seen_at |-> nowText, last_seen_at |-> nowText]}

\* Mutant of SelectTaskStatus: every task id reads as an open task.
SelectTaskStatus_AllOpen(ts, task_id) == {"open"}

\* SELECT status FROM tasks WHERE id = ?
SelectTaskStatus(ts, task_id) == {r.status : r \in {x \in ts : x.id = task_id}}

\* Mutant of CompleteMatch: AND status = 'open' is left out.
CompleteMatch_AnyStatus(ts, task_id) == {r \in ts : r.id = task_id}

\* UPDATE tasks SET status = 'completed' WHERE id = ? AND status = 'open':
\* the rows it matches, and the table after it.
CompleteMatch(ts, task_id) == {r \in ts : r.id = task_id /\ r.status = "open"}

\* Mutant of SetCompleted: the matched rows are deleted.
SetCompleted_Delete(ts, hit) == ts \ hit

SetCompleted(ts, hit) ==
    {IF r \in hit THEN [r EXCEPT !.status = "completed"] ELSE r : r \in ts}

-----------------------------------------------------------------------------
(* History of what callers were told                                       *)

\* Agent ag was told success with a lease on (task_id, aspect) to expires_at:
\* it replaces what ag was told before for the key; a lease that does not
\* cover the current instant is not recorded.
Grant(g, task_id, aspect, ag, expires_at) ==
    {x \in g : ~(x.task_id = task_id /\ x.aspect = aspect /\ x.agent = ag)}
    \cup (IF expires_at > now
          THEN {[task_id |-> task_id, aspect |-> aspect, agent |-> ag,
                 expires_at |-> expires_at]}
          ELSE {})

\* The callers in flight that have read the key's row and not yet written,
\* on behalf of an agent other than ag.
Pending(p, task_id, aspect, ag) ==
    {q \in Procs \ {p} :
        /\ call[q].pc \in {"claim_extend", "claim_overwrite", "claim_insert", "renew_update"}
        /\ call[q].task_id = task_id /\ call[q].aspect = aspect
        /\ call[q].agent # ag}

\* call after caller p returned r; when p's last step wrote the key's row,
\* the pending callers of other agents are marked.
Finish(p, r, marks) ==
    [q \in Procs |->
        IF q = p THEN r
        ELSE IF marks /\ q \in Pending(p, r.task_id, r.aspect, r.agent)
        THEN [call[q] EXCEPT !.raced = TRUE]
        ELSE call[q]]

-----------------------------------------------------------------------------
(* Initial state: the schema has been created, the tables are empty.       *)

\* The stores a run starts from: the empty store initialize() leaves, the
\* store after create_task by agent "A", and the store after that and a
\* claim_task by "A" with some ttl_minutes, all three at the clock's first
\* reading.  From there every caller of Procs makes one call, at any time
\* and in any interleaving with the other's.
FirstRow(ttl) ==
    [task_id |-> "T1", agent |-> "A", aspect |-> "research",
     claimed_at |-> FormatDatetime(StartNow),
     expires_at |-> FormatDatetime(StartNow + Minutes(ClampTtl(ttl)))]

Init ==
    /\ now = StartNow
    /\ findings = {}
    /\ call = [p \in Procs |-> IdleCall]
    /\ \/ /\ agents = {}
          /\ tasks = {}
          /\ claims = {}
          /\ granted = {}
       \/ /\ agents = UpsertAgent({}, "A", FormatDatetime(StartNow))
          /\ tasks = {[id |-> "T1", status |-> "open", created_by |-> "A"]}
          /\ \/ /\ claims = {}
                /\ granted = {}
             \/ \E ttl \in TtlValues :
                   /\ claims = {FirstRow(ttl)}
                   /\ granted = {[task_id |-> "T1", aspect |-> "research", agent |-> "A",
                                  expires_at |-> StartNow + Minutes(ClampTtl(ttl))] :
                                     x \in {y \in {ttl} : ClampTtl(y) > 0}}

\* A returned call has been observed; the caller makes no further call.
Return(p) ==
    /\ call[p].pc = "done"
    /\ call' = [call EXCEPT ![p] = [IdleCall EXCEPT !.pc = "end"]]
    /\ UNCHANGED <<findings, now, agents, tasks, claims, granted>>


\* No call has just returned.  A returned call is observed (Return) before
\* anything else happens.
Quiet == \A p \in Procs : call[p].pc # "done"

\* The clock advances.
Tick ==
    /\ Quiet
    /\ now < StartNow + MaxNow
    /\ now' = now + 1
    /\ granted' = {x \in granted : x.expires_at > now + 1}
    /\ UNCHANGED <<findings, agents, tasks, claims, call>>

\* A caller invokes an operation for an agent.  Every operation starts with
\* ensure_agent_known(agent), which reads the clock before it connects.  The
\* other arguments are drawn where the operation first uses them.
Invoke(p) ==
    /\ Quiet
    /\ call[p].pc = "idle"
    /\ \E op \in Ops, ag \in AgentIds :
        call' = [call EXCEPT ![p] = [IdleCall EXCEPT !.pc = "ensure", !.op = op,
                                                     !.agent = ag, !.seen_now = now]]
    /\ UNCHANGED <<findings, now, agents, tasks, claims, granted>>

\* The first statement after ensure_agent_known returns.
Entry(op) ==
    CASE op = "create_task" -> "create_insert"
      [] op = "complete_task" -> "complete_update"
      [] op = "claim_task" -> "claim_clamp"
      [] op = "renew_claim" -> "renew_clamp"
      [] op = "release_claim" -> "release_delete"
      [] op = "post_finding" -> "finding_clock"

\* ensure_agent_known: the upsert and its commit.  With noted, the call's
\* record keeps whether the step changed the agents table.
EnsureStep(p, noted) ==
    /\ Quiet
    /\ call[p].pc = "ensure"
    /\ agents' = UpsertAgent(agents, call[p].agent, FormatDatetime(call[p].seen_now))
    /\ call' = [call EXCEPT ![p].pc = Entry(call[p].op), ![p].seen_now = 0,
                            ![p].touched = noted /\ agents' # agents]
    /\ UNCHANGED <<findings, now, tasks, claims, granted>>

EnsureAgentKnown(p) == EnsureStep(p, FALSE)

\* create_task: a fresh uuid4, INSERT INTO tasks (status defaults to open),
\* commit.
CreateTask(p) ==
    /\ Quiet
    /\ call[p].pc = "create_insert"
    /\ \E id \in TaskIds :
        /\ \A r \in tasks : r.id # id
        /\ tasks' = tasks \cup {[id |-> id, status |-> "open", created_by |-> call[p].agent]}
        /\ call' = [call EXCEPT ![p] = Returned([call[p] EXCEPT !.task_id = id], TRUE, TRUE)]
    /\ UNCHANGED <<findings, now, agents, claims, granted>>

\* complete_task: UPDATE tasks, and when a row changed DELETE the task's
\* claims and commit; both statements run in one transaction.
CompleteTask(p) ==
    /\ Quiet
    /\ call[p].pc = "complete_update"
    /\ \E t \in TaskIds :
        LET c == [call[p] EXCEPT !.task_id = t,
                                 !.existing = {[agent |-> r.agent, expires_at |-> r.expires_at] :
                                                  r \in {x \in claims : x.task_id = t}}]
            hit == CompleteMatch(tasks, t)
        IN IF hit = {}
           THEN /\ call' = [call EXCEPT ![p] = Returned(c, FALSE, FALSE)]
                /\ UNCHANGED <<tasks, claims, granted>>
           ELSE /\ tasks' = SetCompleted(tasks, hit)
                /\ claims' = DeleteTaskClaims(claims, t)
                /\ granted' = {x \in granted : x.task_id # t}
                /\ call' = [call EXCEPT ![p] = Returned(c, TRUE, TRUE)]
    /\ UNCHANGED <<findings, now, agents>>

\* ---- claim_task ----

\* Mutant of IsLive: a row with an expires_at is live whatever the clock reads.
IsLive_Forever(existing_expires, n) == existing_expires # None

\* existing_expires and existing_expires > now
IsLive(existing_expires, n) ==
    existing_expires # None /\ existing_expires[1] > n

\* Mutant of ClaimBranch: a live row is extended whoever holds it.
ClaimBranch_AnyOwner(existing, agent, n) ==
    IF existing = {} THEN "insert"
    ELSE LET row == CHOOSE r \in existing : TRUE
         IN IF IsLive(ParseDatetime(row.expires_at), n) THEN "extend" ELSE "overwrite"

\* The branch claim_task takes on the row it fetched (existing: no row or
\* the row's agent and expires_at).
ClaimBranch(existing, agent, n) ==
    IF existing = {} THEN "insert"
    ELSE LET row == CHOOSE r \in existing : TRUE
         IN IF IsLive(ParseDatetime(row.expires_at), n)
            THEN (IF row.agent = agent THEN "extend" ELSE "conflict")
            ELSE "overwrite"

\* ttl_minutes = min(ttl_minutes, max_ttl); now = datetime.now(timezone.utc);
\* expires_at = now + timedelta(minutes=ttl_minutes).  The record keeps the
\* requested ttl_minutes.
Clamp(p, next) ==
    \E t \in TaskIds, a \in Aspects, ttl \in TtlValues :
        call' = [call EXCEPT ![p].pc = next, ![p].task_id = t, ![p].aspect = a,
                             ![p].ttl_minutes = ttl, ![p].now = now,
                             ![p].expires_at = now + Minutes(ClampTtl(ttl))]

ClaimClamp(p) ==
    /\ Quiet
    /\ call[p].pc = "claim_clamp"
    /\ Clamp(p, "claim_select_task")
    /\ UNCHANGED <<findings, now, agents, tasks, claims, granted>>

\* SELECT status FROM tasks: return (False, None) unless the task is open.
ClaimSelectTask(p) ==
    /\ Quiet
    /\ call[p].pc = "claim_select_task"
    /\ LET task == SelectTaskStatus(tasks, call[p].task_id)
       IN IF task = {} \/ task # {"open"}
          THEN /\ call' = [call EXCEPT ![p] = Returned(call[p], FALSE, FALSE)]
          ELSE /\ call' = [call EXCEPT ![p].pc = "claim_select"]
    /\ UNCHANGED <<findings, now, agents, tasks, claims, granted>>

\* SELECT agent, expires_at FROM claims, and the branch on the row fetched.
ClaimSelect(p) ==
    /\ Quiet
    /\ call[p].pc = "claim_select"
    /\ LET c == call[p]
           existing == {[agent |-> r.agent, expires_at |-> r.expires_at] :
                           r \in FetchOne(SelectClaim(claims, c.task_id, c.aspect))}
           branch == ClaimBranch(existing, c.agent, c.now)
           d == [c EXCEPT !.existing = existing, !.branch = branch]
       IN IF branch = "conflict"
          THEN /\ call' = [call EXCEPT ![p] = Returned(d, FALSE, FALSE)]
          ELSE /\ call' = [call EXCEPT ![p] = [d EXCEPT !.pc = "claim_" \o branch]]
    /\ UNCHANGED <<findings, now, agents, tasks, claims, granted>>

\* Same agent, live row: UPDATE claims SET expires_at, commit, (True, expires_at).
ClaimExtend(p) ==
    /\ Quiet
    /\ call[p].pc = "claim_extend"
    /\ LET c == call[p]
       IN /\ claims' = UpdateExpiry(claims, c.task_id, c.aspect, FormatDatetime(c.expires_at))
          /\ granted' = Grant(granted, c.task_id, c.aspect, c.agent, c.expires_at)
          /\ call' = Finish(p, Returned(c, TRUE, claims' # claims), TRUE)
    /\ UNCHANGED <<findings, now, agents, tasks>>

\* Expired row: UPDATE claims SET agent, expires_at, claimed_at, commit,
\* (True, expires_at).
ClaimOverwrite(p) ==
    /\ Quiet
    /\ call[p].pc = "claim_overwrite"
    /\ LET c == call[p]
       IN /\ claims' = UpdateOwner(claims, c.task_id, c.aspect, c.agent,
                                   FormatDatetime(c.expires_at), FormatDatetime(c.now))
          /\ granted' = Grant(granted, c.task_id, c.aspect, c.agent, c.expires_at)
          /\ call' = Finish(p, Returned(c, TRUE, claims' # claims), TRUE)
    /\ UNCHANGED <<findings, now, agents, tasks>>

\* No row: INSERT INTO claims, commit, (True, expires_at); IntegrityError is
\* caught and (False, None) returned.
ClaimInsert(p) ==
    /\ Quiet
    /\ call[p].pc = "claim_insert"
    /\ LET c == call[p]
       IN IF UniqueViolation(claims, c.task_id, c.aspect)
          THEN /\ call' = Finish(p, Returned(c, FALSE, FALSE), FALSE)
               /\ UNCHANGED <<claims, granted>>
          ELSE /\ claims' = InsertClaim(claims, c.task_id, c.agent, c.aspect,
                                        FormatDatetime(c.now), FormatDatetime(c.expires_at))
               /\ granted' = Grant(granted, c.task_id, c.aspect, c.agent, c.expires_at)
               /\ call' = Finish(p, Returned(c, TRUE, TRUE), TRUE)
    /\ UNCHANGED <<findings, now, agents, tasks>>

\* ---- renew_claim ----

RenewClamp(p) ==
    /\ Quiet
    /\ call[p].pc = "renew_clamp"
    /\ Clamp(p, "renew_select")
    /\ UNCHANGED <<findings, now, agents, tasks, claims, granted>>

\* Whether renew_claim goes on to its update: a live row was fetched and its
\* agent is the caller.
RenewOwned(row, agent) ==
    row # {} /\ \A r \in row : r.agent = agent

\* SELECT agent FROM claims WHERE ... AND expires_at > now: (False, None) for
\* no row and for another agent's row.
RenewSelect(p) ==
    /\ Quiet
    /\ call[p].pc = "renew_select"
    /\ LET c == call[p]
           row == {[agent |-> r.agent] :
                      r \in FetchOne(SelectLiveClaim(claims, c.task_id, c.aspect,
                                                     FormatDatetime(c.now)))}
           d == [c EXCEPT !.existing = {[agent |-> r.agent, expires_at |-> r.expires_at] :
                                           r \in SelectClaim(claims, c.task_id, c.aspect)}]
       IN IF RenewOwned(row, c.agent)
          THEN /\ call' = [call EXCEPT ![p] = [d EXCEPT !.pc = "renew_update"]]
          ELSE /\ call' = [call EXCEPT ![p] = Returned(d, FALSE, FALSE)]
    /\ UNCHANGED <<findings, now, agents, tasks, claims, granted>>

\* UPDATE claims SET expires_at, commit, (True, new_expires).
RenewUpdate(p) ==
    /\ Quiet
    /\ call[p].pc = "renew_update"
    /\ LET c == call[p]
       IN /\ claims' = UpdateExpiry(claims, c.task_id, c.aspect, FormatDatetime(c.expires_at))
          /\ granted' = Grant(granted, c.task_id, c.aspect, c.agent, c.expires_at)
          /\ call' = Finish(p, Returned(c, TRUE, claims' # claims), FALSE)
    /\ UNCHANGED <<findings, now, agents, tasks>>

\* ---- release_claim ----

\* DELETE FROM claims WHERE task_id, aspect, agent; commit; rowcount > 0.
ReleaseClaim(p) ==
    /\ Quiet
    /\ call[p].pc = "release_delete"
    /\ \E t \in TaskIds, a \in Aspects :
        LET c == [call[p] EXCEPT !.task_id = t, !.aspect = a]
            hit == ReleaseMatch(claims, t, a, c.agent)
            d == [c EXCEPT !.existing = {[agent |-> r.agent, expires_at |-> r.expires_at] :
                                            r \in SelectClaim(claims, t, a)}]
        IN /\ claims' = claims \ hit
           /\ granted' = IF hit = {} THEN granted
                         ELSE {x \in granted : ~(x.task_id = t /\ x.aspect = a
                                                 /\ x.agent = c.agent)}
           /\ call' = [call EXCEPT ![p] = Returned(d, hit # {}, hit # {})]
    /\ UNCHANGED <<findings, now, agents, tasks>>

-----------------------------------------------------------------------------

Next ==
    \/ Tick
    \/ \E p \in Procs :
        \/ Return(p)
        \/ Invoke(p)
        \/ EnsureAgentKnown(p)
        \/ CreateTask(p)
        \/ CompleteTask(p)
        \/ ClaimClamp(p)
        \/ ClaimSelectTask(p)
        \/ ClaimSelect(p)
        \/ ClaimExtend(p)
        \/ ClaimOverwrite(p)
        \/ ClaimInsert(p)
        \/ RenewClamp(p)
        \/ RenewSelect(p)
        \/ RenewUpdate(p)
        \/ ReleaseClaim(p)

Spec == Init /\ [][Next]_vars

-----------------------------------------------------------------------------
(* Readers: get_task, get_task_status, get_stats                           *)

\* The operations that take an agent and start with ensure_agent_known.
AgentOps == Ops \cup {"post_finding"}

\* The first step of a call: ensure_agent_known for the operations that take
\* an agent; register_agent, get_task_status and get_stats read the clock
\* and connect; get_task and list_findings connect.
FirstPc(op) ==
    CASE op \in AgentOps -> "ensure"
      [] op = "register_agent" -> "register_select"
      [] op = "get_task" -> "task_select"
      [] op = "get_task_status" -> "status_tasks"
      [] op = "get_stats" -> "stats_agents"
      [] op = "list_findings" -> "list_select"

\* A caller invokes one of the operations ops.
Begin(p, ops) ==
    /\ Quiet
    /\ call[p].pc = "idle"
    /\ \E op \in ops :
        \E ag \in (IF op \in AgentOps \cup {"register_agent"} THEN AgentIds ELSE {"none"}) :
            call' = [call EXCEPT ![p] =
                        [IdleCall EXCEPT !.pc = FirstPc(op), !.op = op, !.agent = ag,
                                         !.seen_now = IF op \in AgentOps THEN now ELSE 0,
                                         !.now = IF op \in AgentOps \cup {"get_task", "list_findings"}
                                                 THEN 0 ELSE now]]
    /\ UNCHANGED <<findings, now, agents, tasks, claims, granted>>

\* The value a reader returns.
Answer(c, result) == Returned([c EXCEPT !.result = result], TRUE, FALSE)

\* get_task: SELECT * FROM tasks WHERE id = ?, None for no row.
GetTask(p) ==
    /\ Quiet
    /\ call[p].pc = "task_select"
    /\ \E t \in TaskIds :
        call' = [call EXCEPT ![p] =
                    Answer([call[p] EXCEPT !.task_id = t],
                           {[id |-> r.id, status |-> r.status, created_by |-> r.created_by] :
                               r \in {x \in tasks : x.id = t}})]
    /\ UNCHANGED <<findings, now, agents, tasks, claims, granted>>

\* SELECT * FROM tasks WHERE id = ? when a task_id is given, else
\* SELECT * FROM tasks WHERE status = 'open'.
SelectTasks(ts, arg) ==
    IF arg # None THEN {r \in ts : r.id = arg[1]} ELSE {r \in ts : r.status = "open"}

\* _parse_datetime(value) or datetime.now(timezone.utc)
ParsedOrNow(value, n) ==
    LET d == ParseDatetime(value) IN IF d = None THEN n ELSE d[1]

\* get_task_status: the tasks it reports.  existing keeps, as history, the
\* claim rows of those tasks that are live at the call's now when the tasks
\* are read.
StatusSelectTasks(p) ==
    /\ Quiet
    /\ call[p].pc = "status_tasks"
    /\ \E a \in {None} \cup {Some(t) : t \in TaskIds} :
        LET c == call[p]
            rows == SelectTasks(tasks, a)
            d == [c EXCEPT !.arg = a,
                           !.rows = {[id |-> r.id, status |-> r.status] : r \in rows},
                           !.existing =
                               {[task_id |-> r.task_id, agent |-> r.agent, aspect |-> r.aspect] :
                                   r \in UNION {SelectLiveTaskClaims(claims, t.id,
                                                                     FormatDatetime(c.now)) :
                                                   t \in rows}}]
        IN IF rows = {}
           THEN call' = [call EXCEPT ![p] = Answer(d, {})]
           ELSE call' = [call EXCEPT ![p] = [d EXCEPT !.pc = "status_claims"]]
    /\ UNCHANGED <<findings, now, agents, tasks, claims, granted>>

\* get_task_status, one turn of "for task in tasks": the task's claims with
\* expires_at > now, and the TaskStatus appended to the result.
StatusSelectClaims(p) ==
    /\ Quiet
    /\ call[p].pc = "status_claims"
    /\ LET c == call[p]
       IN \E task \in {t \in c.rows : \A e \in c.result : e.id # t.id} :
            LET claim_rows == SelectLiveTaskClaims(claims, task.id, FormatDatetime(c.now))
                status == [id |-> task.id, status |-> task.status,
                           claims |-> {[task_id |-> r.task_id, agent |-> r.agent,
                                        aspect |-> r.aspect,
                                        claimed_at |-> ParsedOrNow(r.claimed_at, now),
                                        expires_at |-> ParsedOrNow(r.expires_at, now)] :
                                           r \in claim_rows}]
                result == c.result \cup {status}
            IN IF \A t \in c.rows : \E e \in result : e.id = t.id
               THEN call' = [call EXCEPT ![p] = Answer(c, result)]
               ELSE call' = [call EXCEPT ![p].result = result]
    /\ UNCHANGED <<findings, now, agents, tasks, claims, granted>>

\* get_stats: SELECT COUNT(*) FROM agents.
StatsAgents(p) ==
    /\ Quiet
    /\ call[p].pc = "stats_agents"
    /\ call' = [call EXCEPT ![p].pc = "stats_tasks",
                            ![p].result = [agents |-> Cardinality(agents),
                                           active_tasks |-> 0, open_claims |-> 0]]
    /\ UNCHANGED <<findings, now, agents, tasks, claims, granted>>

\* get_stats: SELECT COUNT(*) FROM tasks WHERE status = 'open'.
StatsTasks(p) ==
    /\ Quiet
    /\ call[p].pc = "stats_tasks"
    /\ call' = [call EXCEPT ![p].pc = "stats_claims",
                            ![p].result.active_tasks =
                                Cardinality({r \in tasks : r.status = "open"})]
    /\ UNCHANGED <<findings, now, agents, tasks, claims, granted>>

\* Mutant of CountLiveClaims: SELECT COUNT(*) FROM claims.
CountLiveClaims_All(cl, nowText) == Cardinality(cl)

\* SELECT COUNT(*) FROM claims WHERE expires_at > ?
CountLiveClaims(cl, nowText) == Cardinality({r \in cl : TextGT(r.expires_at, nowText)})

\* get_stats: the count of claims with expires_at > now, and the dict
\* returned.
StatsClaims(p) ==
    /\ Quiet
    /\ call[p].pc = "stats_claims"
    /\ LET c == call[p]
           n == CountLiveClaims(claims, FormatDatetime(c.now))
       IN call' = [call EXCEPT ![p] = Answer(c, [c.result EXCEPT !.open_claims = n])]
    /\ UNCHANGED <<findings, now, agents, tasks, claims, granted>>

\* Readers running concurrently with complete_task.
ReadOps == {"complete_task", "get_task", "get_task_status", "get_stats"}

InvokeRead(p) == Begin(p, ReadOps)

NextRead ==
    \/ Tick
    \/ \E p \in Procs :
        \/ Return(p)
        \/ InvokeRead(p)
        \/ EnsureAgentKnown(p)
        \/ CompleteTask(p)
        \/ GetTask(p)
        \/ StatusSelectTasks(p)
        \/ StatusSelectClaims(p)
        \/ StatsAgents(p)
        \/ StatsTasks(p)
        \/ StatsClaims(p)

SpecRead == Init /\ [][NextRead]_vars

-----------------------------------------------------------------------------
(* register_agent and post_finding                                         *)

\* The arguments register_agent and post_finding are called with.
Names == {None, Some("scout")}
AgentTypes == {None, Some("bot")}
Metadatas == {None, Some({}), Some({"k"})}
KnowledgeIds == {None, Some("K1")}

\* json.dumps(metadata) if metadata else None: an empty dict is falsy.
MetadataJson(metadata) ==
    IF metadata = None \/ metadata[1] = {} THEN None ELSE Some(<<"json", metadata[1]>>)

\* COALESCE(?, column)
Coalesce(value, column) == IF value # None THEN value ELSE column

\* register_agent: SELECT id FROM agents WHERE id = ?; exists.
RegisterSelect(p) ==
    /\ Quiet
    /\ call[p].pc = "register_select"
    /\ call' = [call EXCEPT ![p].pc = "register_write",
                            ![p].exists = \E r \in agents : r.id = call[p].agent]
    /\ UNCHANGED <<findings, now, agents, tasks, claims, granted>>

\* register_agent: the UPDATE when the row was found, else the INSERT; commit
\* and (True, not exists).  An INSERT that meets a row with the id raises
\* IntegrityError (id is the PRIMARY KEY), which register_agent lets through.
RegisterWrite(p) ==
    /\ Quiet
    /\ call[p].pc = "register_write"
    /\ \E name \in Names, agent_type \in AgentTypes, metadata \in Metadatas :
        LET c == [call[p] EXCEPT !.name = name, !.agent_type = agent_type,
                                 !.metadata = metadata]
            nowText == FormatDatetime(c.now)
        IN IF c.exists
           THEN /\ agents' = {IF r.id = c.agent
                              THEN [r EXCEPT !.name = Coalesce(name, r.name),
                                             !.type = Coalesce(agent_type, r.type),
                                             !.metadata = Coalesce(MetadataJson(metadata),
                                                                   r.metadata),
                                             !.last_seen_at = nowText]
                              ELSE r : r \in agents}
                /\ call' = [call EXCEPT ![p] =
                               Returned([c EXCEPT !.result = <<TRUE, FALSE>>], TRUE, TRUE)]
           ELSE IF \E r \in agents : r.id = c.agent
           THEN /\ agents' = agents
                /\ call' = [call EXCEPT ![p] =
                               Returned([c EXCEPT !.error = TRUE], FALSE, FALSE)]
           ELSE /\ agents' = agents \cup
                        {[id |-> c.agent, name |-> name, type |-> agent_type,
                          metadata |-> MetadataJson(metadata),
                          first_seen_at |-> nowText, last_seen_at |-> nowText]}
                /\ call' = [call EXCEPT ![p] =
                               Returned([c EXCEPT !.result = <<TRUE, TRUE>>], TRUE, TRUE)]
    /\ UNCHANGED <<findings, now, tasks, claims, granted>>

\* str(uuid.uuid4()): a value no other call draws.  Each caller makes one
\* call, so the caller's name stands for the value it draws.
NewUuid(p) == p

\* The task ids findings are posted and listed with: those of TaskIds and
\* one that no task ever has.
FindingTaskIds == TaskIds \cup {"T0"}

\* Mutant of ForeignKeys: the connection enforces FOREIGN KEY clauses.
ForeignKeys_On == TRUE

\* PRAGMA foreign_keys of the connections the service opens: never set, so
\* SQLite's default (off) applies and FOREIGN KEY (task_id) REFERENCES
\* tasks(id) is not enforced.
ForeignKeys == FALSE

\* The rowid SQLite gives the next row of a table whose rows are never
\* deleted: one more than the largest.
NextRowid(fs) == Cardinality(fs) + 1

\* Mutant of InsertFinding: the new row takes the place of the task's rows.
InsertFinding_Latest(fs, row) == {f \in fs : f.task_id # row.task_id} \cup {row}

\* INSERT INTO findings (id, task_id, agent, summary, knowledge_id, created_at)
InsertFinding(fs, row) == fs \cup {row}

\* post_finding: finding_id = str(uuid.uuid4()); now = _format_datetime(...).
FindingClock(p) ==
    /\ Quiet
    /\ call[p].pc = "finding_clock"
    /\ \E t \in FindingTaskIds, k \in KnowledgeIds :
        call' = [call EXCEPT ![p].pc = "finding_insert", ![p].task_id = t,
                             ![p].arg = k, ![p].now = now]
    /\ UNCHANGED <<findings, now, agents, tasks, claims, granted>>

\* post_finding: INSERT INTO findings, commit, return finding_id.  With
\* foreign keys enforced the INSERT of a task_id that no task has would raise
\* IntegrityError.
FindingInsert(p) ==
    /\ Quiet
    /\ call[p].pc = "finding_insert"
    /\ LET c == call[p]
       IN IF ForeignKeys /\ \A t \in tasks : t.id # c.task_id
          THEN /\ findings' = findings
               /\ call' = [call EXCEPT ![p] = Returned([c EXCEPT !.error = TRUE], FALSE, FALSE)]
          ELSE /\ findings' = InsertFinding(findings,
                                  [id |-> NewUuid(p), rowid |-> NextRowid(findings),
                                   task_id |-> c.task_id, agent |-> c.agent,
                                   summary |-> "summary", knowledge_id |-> c.arg,
                                   created_at |-> FormatDatetime(c.now)])
               /\ call' = [call EXCEPT ![p] =
                              Returned([c EXCEPT !.result = NewUuid(p)], TRUE, TRUE)]
    /\ UNCHANGED <<now, agents, tasks, claims, granted>>

\* register_agent and post_finding running concurrently.
RegistryOps == {"register_agent", "post_finding"}

InvokeRegistry(p) == Begin(p, RegistryOps)

NextRegistry ==
    \/ Tick
    \/ \E p \in Procs :
        \/ Return(p)
        \/ InvokeRegistry(p)
        \/ EnsureAgentKnown(p)
        \/ RegisterSelect(p)
        \/ RegisterWrite(p)
        \/ FindingClock(p)
        \/ FindingInsert(p)

SpecRegistry == Init /\ [][NextRegistry]_vars

\* Every operation, one call at a time: a caller invokes an operation when
\* no other call is in flight.
AllOps == AgentOps \cup {"register_agent", "get_task", "get_task_status", "get_stats"}

InvokeSeq(p) ==
    /\ \A q \in Procs \ {p} : call[q].pc \in {"idle", "end"}
    /\ Begin(p, AllOps)

NextSeq ==
    \/ Tick
    \/ \E p \in Procs :
        \/ Return(p)
        \/ InvokeSeq(p)
        \/ EnsureAgentKnown(p)
        \/ CreateTask(p)
        \/ CompleteTask(p)
        \/ ClaimClamp(p)
        \/ ClaimSelectTask(p)
        \/ ClaimSelect(p)
        \/ ClaimExtend(p)
        \/ ClaimOverwrite(p)
        \/ ClaimInsert(p)
        \/ RenewClamp(p)
        \/ RenewSelect(p)
        \/ RenewUpdate(p)
        \/ ReleaseClaim(p)
        \/ RegisterSelect(p)
        \/ RegisterWrite(p)
        \/ FindingClock(p)
        \/ FindingInsert(p)
        \/ GetTask(p)
        \/ StatusSelectTasks(p)
        \/ StatusSelectClaims(p)
        \/ StatsAgents(p)
        \/ StatsTasks(p)
        \/ StatsClaims(p)

SpecSeq == Init /\ [][NextSeq]_vars

-----------------------------------------------------------------------------
(* claim_task, renew_claim and release_claim, with the registry's part kept *)

EnsureAgentKnownNoted(p) == EnsureStep(p, TRUE)

LeaseOps == {"claim_task", "renew_claim", "release_claim"}

InvokeLease(p) == Begin(p, LeaseOps)

NextLease ==
    \/ Tick
    \/ \E p \in Procs :
        \/ Return(p)
        \/ InvokeLease(p)
        \/ EnsureAgentKnownNoted(p)
        \/ ClaimClamp(p)
        \/ ClaimSelectTask(p)
        \/ ClaimSelect(p)
        \/ ClaimExtend(p)
        \/ ClaimOverwrite(p)
        \/ ClaimInsert(p)
        \/ RenewClamp(p)
        \/ RenewSelect(p)
        \/ RenewUpdate(p)
        \/ ReleaseClaim(p)

\* The stores the lease operations start from: the empty store, and the
\* store after create_task by agent "A" with no claim, with A's live claim
\* and with A's claim that has expired.
InitLease ==
    /\ now = StartNow
    /\ findings = {}
    /\ call = [p \in Procs |-> IdleCall]
    /\ \/ /\ agents = {}
          /\ tasks = {}
          /\ claims = {}
          /\ granted = {}
       \/ /\ agents = UpsertAgent({}, "A", FormatDatetime(StartNow))
          /\ tasks = {[id |-> "T1", status |-> "open", created_by |-> "A"]}
          /\ \/ /\ claims = {}
                /\ granted = {}
             \/ /\ claims = {FirstRow(1)}
                /\ granted = {[task_id |-> "T1", aspect |-> "research", agent |-> "A",
                               expires_at |-> StartNow + Minutes(1)]}
             \/ /\ claims = {FirstRow(0)}
                /\ granted = {}

SpecLease == InitLease /\ [][NextLease]_vars

-----------------------------------------------------------------------------
(* Statements, commits and abandoned calls                                 *)

\* Mutant of Autocommit: the connections are opened with
\* isolation_level=None, every statement is its own transaction.
Autocommit_On == TRUE

\* aiosqlite.connect(self.db_path) keeps sqlite3's default isolation_level:
\* the first INSERT, UPDATE or DELETE of a connection opens a transaction
\* that lasts until commit(); closing the connection without commit rolls it
\* back.
Autocommit == FALSE

\* No other connection has a transaction open.  A transaction holds the
\* database's write lock from its first statement on, and another
\* connection's INSERT, UPDATE or DELETE waits for it.
Unlocked(p) == \A q \in Procs \ {p} : call[q].txn = None

\* The tables as caller p's connection sees them: with its own uncommitted
\* statements applied.
View(p) ==
    IF call[p].txn = None THEN [tasks |-> tasks, claims |-> claims] ELSE call[p].txn[1]

\* A statement of caller p that leaves the tables as ts and cl: held in the
\* connection's transaction, or written through when the connection
\* autocommits.  c is the caller's record after the statement.
Statement(p, c, ts, cl) ==
    IF Autocommit
    THEN /\ tasks' = ts
         /\ claims' = cl
         /\ call' = [call EXCEPT ![p] = c]
    ELSE /\ UNCHANGED <<tasks, claims>>
         /\ call' = [call EXCEPT ![p] = [c EXCEPT !.txn = Some([tasks |-> ts, claims |-> cl])]]

\* ensure_agent_known, waiting for the write lock.
TxEnsureAgentKnown(p) == Unlocked(p) /\ EnsureAgentKnown(p)

\* complete_task: UPDATE tasks SET status = 'completed'; return False when
\* no row changed.
TxCompleteUpdate(p) ==
    /\ Quiet
    /\ call[p].pc = "complete_update"
    /\ Unlocked(p)
    /\ \E t \in TaskIds :
        LET c == [call[p] EXCEPT !.task_id = t,
                                 !.existing = {[agent |-> r.agent, expires_at |-> r.expires_at] :
                                                  r \in {x \in claims : x.task_id = t}}]
            hit == CompleteMatch(tasks, t)
        IN IF hit = {}
           THEN /\ call' = [call EXCEPT ![p] = Returned(c, FALSE, FALSE)]
                /\ UNCHANGED <<tasks, claims>>
           ELSE Statement(p, [c EXCEPT !.pc = "complete_delete"],
                          SetCompleted(tasks, hit), claims)
    /\ UNCHANGED <<findings, now, agents, granted>>

\* complete_task: DELETE FROM claims WHERE task_id = ?
TxCompleteDelete(p) ==
    /\ Quiet
    /\ call[p].pc = "complete_delete"
    /\ Statement(p, [call[p] EXCEPT !.pc = "complete_commit"],
                 View(p).tasks, DeleteTaskClaims(View(p).claims, call[p].task_id))
    /\ UNCHANGED <<findings, now, agents, granted>>

\* complete_task: commit and return True.
TxCompleteCommit(p) ==
    /\ Quiet
    /\ call[p].pc = "complete_commit"
    /\ tasks' = View(p).tasks
    /\ claims' = View(p).claims
    /\ granted' = {x \in granted : x.task_id # call[p].task_id}
    /\ call' = [call EXCEPT ![p] = Returned([call[p] EXCEPT !.txn = None], TRUE, TRUE)]
    /\ UNCHANGED <<findings, now, agents>>

\* claim_task and renew_claim: the UPDATE or INSERT of the branch taken.
\* The INSERT that meets a row of the key raises IntegrityError, which
\* claim_task answers with (False, None).
TxLeaseWrite(p) ==
    /\ Quiet
    /\ call[p].pc \in {"claim_extend", "claim_overwrite", "claim_insert", "renew_update"}
    /\ Unlocked(p)
    /\ LET c == call[p]
           cl == CASE c.pc = "claim_overwrite" ->
                        UpdateOwner(claims, c.task_id, c.aspect, c.agent,
                                    FormatDatetime(c.expires_at), FormatDatetime(c.now))
                   [] c.pc = "claim_insert" ->
                        InsertClaim(claims, c.task_id, c.agent, c.aspect,
                                    FormatDatetime(c.now), FormatDatetime(c.expires_at))
                   [] OTHER ->
                        UpdateExpiry(claims, c.task_id, c.aspect, FormatDatetime(c.expires_at))
       IN IF c.pc = "claim_insert" /\ UniqueViolation(claims, c.task_id, c.aspect)
          THEN /\ call' = Finish(p, Returned(c, FALSE, FALSE), FALSE)
               /\ UNCHANGED <<tasks, claims>>
          ELSE Statement(p, [c EXCEPT !.pc = "lease_commit"], tasks, cl)
    /\ UNCHANGED <<findings, now, agents, granted>>

\* claim_task and renew_claim: commit and return (True, expires_at).
TxLeaseCommit(p) ==
    /\ Quiet
    /\ call[p].pc = "lease_commit"
    /\ LET c == call[p]
       IN /\ tasks' = View(p).tasks
          /\ claims' = View(p).claims
          /\ granted' = Grant(granted, c.task_id, c.aspect, c.agent, c.expires_at)
          /\ call' = Finish(p, Returned([c EXCEPT !.txn = None], TRUE, claims' # claims),
                            c.op = "claim_task")
    /\ UNCHANGED <<findings, now, agents>>

\* The caller abandons the call in flight (its task is cancelled): the
\* connection is closed by async with, and what it had not committed is
\* rolled back.
Abandon(p) ==
    /\ Quiet
    /\ call[p].pc \notin {"idle", "done", "end", "aborted"}
    /\ call' = [call EXCEPT ![p] =
                    [IdleCall EXCEPT !.pc = "aborted", !.op = call[p].op,
                                     !.left_at = call[p].pc]]
    /\ UNCHANGED <<findings, now, agents, tasks, claims, granted>>

\* complete_task, claim_task and renew_claim statement by statement, with
\* callers that may abandon their call.
AbortOps == {"complete_task", "claim_task", "renew_claim"}

InvokeAbort(p) == Begin(p, AbortOps)

NextAbort ==
    \/ Tick
    \/ \E p \in Procs :
        \/ Return(p)
        \/ InvokeAbort(p)
        \/ Abandon(p)
        \/ TxEnsureAgentKnown(p)
        \/ TxCompleteUpdate(p)
        \/ TxCompleteDelete(p)
        \/ TxCompleteCommit(p)
        \/ ClaimClamp(p)
        \/ ClaimSelectTask(p)
        \/ ClaimSelect(p)
        \/ RenewClamp(p)
        \/ RenewSelect(p)
        \/ TxLeaseWrite(p)
        \/ TxLeaseCommit(p)

\* The stores the abandoned calls start from: the store after create_task
\* by agent "A", with no claim and with A's live claim.
InitAbort ==
    /\ now = StartNow
    /\ findings = {}
    /\ call = [p \in Procs |-> IdleCall]
    /\ agents = UpsertAgent({}, "A", FormatDatetime(StartNow))
    /\ tasks = {[id |-> "T1", status |-> "open", created_by |-> "A"]}
    /\ \/ /\ claims = {}
          /\ granted = {}
       \/ /\ claims = {FirstRow(1)}
          /\ granted = {[task_id |-> "T1", aspect |-> "research", agent |-> "A",
                         expires_at |-> StartNow + Minutes(1)]}

SpecAbort == InitAbort /\ [][NextAbort]_vars

-----------------------------------------------------------------------------
(* list_findings                                                           *)

\* The utcoffset, in minutes, of the datetimes list_findings is given as
\* since: the server passes datetime.fromisoformat(since) of the caller's
\* string, whatever offset it carries.
Offsets == {0 - 1, 0, 1}

\* The since arguments: none, or an aware datetime (its instant and its
\* utcoffset).
Sinces ==
    {None} \cup {Some([instant |-> i, offset |-> o]) :
                    i \in StartNow..(StartNow + MaxNow), o \in Offsets}

\* The offset as isoformat writes it: sign, hours, colon, minutes.
OffsetText(off) ==
    <<IF off < 0 THEN ChMinus ELSE ChPlus, ChZero, ChZero, ChColon>>
    \o Digits(IF off < 0 THEN 0 - off ELSE off, 2)

\* _format_datetime(since): isoformat writes the datetime's own wall clock
\* and offset; it does not convert to UTC.
FormatSince(since) ==
    LET local == since.instant + Minutes(since.offset)
        frac == local % TicksPerMinute
    IN Digits(local \div TicksPerMinute, WholeWidth)
       \o (IF frac = 0 THEN <<>> ELSE <<ChDot>> \o Digits(frac, FracWidth))
       \o OffsetText(since.offset)

\* Mutant of CreatedAfter: created_at >= ?
CreatedAfter_Inclusive(created_at, sinceText) ==
    created_at = sinceText \/ TextGT(created_at, sinceText)

\* created_at > ?, on the stored TEXT
CreatedAfter(created_at, sinceText) == TextGT(created_at, sinceText)

\* SELECT * FROM findings WHERE task_id = ? [AND created_at > ?]
SelectFindings(fs, task_id, since) ==
    {f \in fs : /\ f.task_id = task_id
                /\ since # None => CreatedAfter(f.created_at, FormatSince(since[1]))}

\* Mutant of OrderByCreatedAt: the rows in the order the table holds them.
RECURSIVE OrderByCreatedAt_Scan(_)
OrderByCreatedAt_Scan(rows) ==
    IF rows = {} THEN <<>>
    ELSE LET first == CHOOSE r \in rows : \A q \in rows : r.rowid <= q.rowid
         IN <<first>> \o OrderByCreatedAt_Scan(rows \ {first})

\* ORDER BY created_at ASC.  The rows reach SQLite's sorter in rowid order
\* (idx_findings_task_id holds them by task_id, then rowid) and the sorter
\* keeps rows of equal created_at in the order they arrive.
RECURSIVE OrderByCreatedAt(_)
OrderByCreatedAt(rows) ==
    IF rows = {} THEN <<>>
    ELSE LET first == CHOOSE r \in rows :
                        \A q \in rows \ {r} :
                            \/ TextGT(q.created_at, r.created_at)
                            \/ q.created_at = r.created_at /\ q.rowid > r.rowid
         IN <<first>> \o OrderByCreatedAt(rows \ {first})

\* Finding(id = row["id"], ..., created_at = _parse_datetime(row["created_at"]))
FindingOf(row) ==
    [id |-> row.id, task_id |-> row.task_id, agent |-> row.agent,
     summary |-> row.summary, knowledge_id |-> row.knowledge_id,
     created_at |-> ParseDatetime(row.created_at)]

\* list_findings: one SELECT, and the list of Finding built from its rows.
ListFindings(p) ==
    /\ Quiet
    /\ call[p].pc = "list_select"
    /\ \E t \in FindingTaskIds, since \in Sinces :
        LET rows == OrderByCreatedAt(SelectFindings(findings, t, since))
        IN call' = [call EXCEPT ![p] =
                       Answer([call[p] EXCEPT !.task_id = t, !.arg = since],
                              [i \in 1..Len(rows) |-> FindingOf(rows[i])])]
    /\ UNCHANGED <<findings, now, agents, tasks, claims, granted>>

\* A finding posted by agent A before the first reading of the model's
\* clock.
PostedFinding(id, rowid, task_id, created_at) ==
    [id |-> id, rowid |-> rowid, task_id |-> task_id, agent |-> "A",
     summary |-> "summary", knowledge_id |-> None,
     created_at |-> FormatDatetime(created_at)]

\* The stores findings are posted to and listed from: agent A is known, task
\* T1 does not exist, is open or is completed, and A has posted no finding,
\* one, two at the same reading of the clock, two whose created_at run
\* against the order of their INSERTs (post_finding reads the clock before
\* it connects), or one for T1 and one for another task id.
InitFindings ==
    /\ now = StartNow
    /\ call = [p \in Procs |-> IdleCall]
    /\ agents = UpsertAgent({}, "A", FormatDatetime(StartNow))
    /\ claims = {}
    /\ granted = {}
    /\ tasks \in {{}} \cup {{[id |-> "T1", status |-> st, created_by |-> "A"]} :
                                st \in {"open", "completed"}}
    /\ findings \in
         {{},
          {PostedFinding("f1", 1, "T1", StartNow)},
          {PostedFinding("f1", 1, "T1", StartNow), PostedFinding("f2", 2, "T1", StartNow)},
          {PostedFinding("f1", 1, "T1", StartNow), PostedFinding("f2", 2, "T1", StartNow - 1)},
          {PostedFinding("f1", 1, "T0", StartNow - 1), PostedFinding("f2", 2, "T1", StartNow)}}

\* post_finding, list_findings and complete_task running concurrently.
FindingOps == {"post_finding", "list_findings", "complete_task"}

InvokeFindings(p) == Begin(p, FindingOps)

NextFindings ==
    \/ Tick
    \/ \E p \in Procs :
        \/ Return(p)
        \/ InvokeFindings(p)
        \/ EnsureAgentKnown(p)
        \/ CompleteTask(p)
        \/ FindingClock(p)
        \/ FindingInsert(p)
        \/ ListFindings(p)

SpecFindings == InitFindings /\ [][NextFindings]_vars

-----------------------------------------------------------------------------
(* Claim.is_expired, read on the Claim objects get_task_status returns      *)

\* Claim.is_expired: datetime.now(timezone.utc) > self.expires_at
is_expired(expires_at, n) == n > expires_at

\* The caller keeps the list get_task_status returned.
Hold(p) ==
    /\ call[p].pc = "done"
    /\ call[p].op = "get_task_status"
    /\ call' = [call EXCEPT ![p].pc = "held"]
    /\ UNCHANGED <<findings, now, agents, tasks, claims, granted>>

\* The caller reads is_expired of one of the Claim objects it holds: the
\* record keeps the object's expires_at, the clock the property read (now)
\* and the value it gave (result).
ReadIsExpired(p) ==
    /\ Quiet
    /\ call[p].pc = "held"
    /\ \E status \in call[p].result :
        \E claim \in status.claims :
            call' = [call EXCEPT ![p] =
                        [IdleCall EXCEPT !.pc = "done", !.op = "is_expired",
                                         !.task_id = claim.task_id,
                                         !.aspect = claim.aspect,
                                         !.expires_at = claim.expires_at,
                                         !.now = now,
                                         !.result = is_expired(claim.expires_at, now)]]
    /\ UNCHANGED <<findings, now, agents, tasks, claims, granted>>

InvokeStatus(p) == Begin(p, {"get_task_status"})

NextExpiry ==
    \/ Tick
    \/ \E p \in Procs :
        \/ Return(p)
        \/ InvokeStatus(p)
        \/ StatusSelectTasks(p)
        \/ StatusSelectClaims(p)
        \/ Hold(p)
        \/ ReadIsExpired(p)

SpecExpiry == Init /\ [][NextExpiry]_vars

-----------------------------------------------------------------------------
(* complete_task called concurrently and repeatedly                        *)

\* A returned complete_task has been observed: the record keeps, as history,
\* the task, the agent and the value returned.
ReturnKept(p) ==
    /\ call[p].pc = "done"
    /\ call' = [call EXCEPT ![p] = [IdleCall EXCEPT !.pc = "end", !.op = call[p].op,
                                                    !.task_id = call[p].task_id,
                                                    !.agent = call[p].agent,
                                                    !.success = call[p].success,
                                                    !.error = call[p].error]]
    /\ UNCHANGED <<findings, now, agents, tasks, claims, granted>>

InvokeComplete(p) == Begin(p, {"complete_task"})

NextComplete ==
    \/ Tick
    \/ \E p \in Procs :
        \/ ReturnKept(p)
        \/ InvokeComplete(p)
        \/ EnsureAgentKnown(p)
        \/ CompleteTask(p)

\* The stores the calls start from: those of Init, where a task that exists
\* is open, created by "A", with no claim or with A's claim.
SpecComplete == Init /\ [][NextComplete]_vars

-----------------------------------------------------------------------------
(* The lease operations and complete_task on a store that holds other keys *)

\* A claim row of agent "B" for another key, as claim_task wrote it at the
\* clock's first reading with the longest ttl: live throughout a run.
OtherRow(task_id, aspect) ==
    [task_id |-> task_id, agent |-> "B", aspect |-> aspect,
     claimed_at |-> FormatDatetime(StartNow),
     expires_at |-> FormatDatetime(StartNow + Minutes(claim_max_ttl_minutes))]

\* The stores the calls start from: tasks "T1" and "T2" created by "A", both
\* open; B holds aspect "implementation" of T1 and aspect "research" of T2;
\* aspect "research" of T1 is free, live-held by A or held by A and expired.
\* The calls are made on task T1 and key (T1, research).
InitKeys ==
    /\ now = StartNow
    /\ findings = {}
    /\ call = [p \in Procs |-> IdleCall]
    /\ agents = UpsertAgent(UpsertAgent({}, "A", FormatDatetime(StartNow)),
                            "B", FormatDatetime(StartNow))
    /\ tasks = {[id |-> t, status |-> "open", created_by |-> "A"] : t \in {"T1", "T2"}}
    /\ LET others == {OtherRow("T1", "implementation"), OtherRow("T2", "research")}
           told == {[task_id |-> r.task_id, aspect |-> r.aspect, agent |-> "B",
                     expires_at |-> StartNow + Minutes(claim_max_ttl_minutes)] :
                       r \in others}
       IN \/ /\ claims = others
             /\ granted = told
          \/ /\ claims = others \cup {FirstRow(1)}
             /\ granted = told \cup {[task_id |-> "T1", aspect |-> "research",
                                       agent |-> "A", expires_at |-> StartNow + Minutes(1)]}
          \/ /\ claims = others \cup {FirstRow(0)}
             /\ granted = told

KeyOps == LeaseOps \cup {"complete_task"}

InvokeKeys(p) == Begin(p, KeyOps)

NextKeys ==
    \/ Tick
    \/ \E p \in Procs :
        \/ Return(p)
        \/ InvokeKeys(p)
        \/ EnsureAgentKnown(p)
        \/ CompleteTask(p)
        \/ ClaimClamp(p)
        \/ ClaimSelectTask(p)
        \/ ClaimSelect(p)
        \/ ClaimExtend(p)
        \/ ClaimOverwrite(p)
        \/ ClaimInsert(p)
        \/ RenewClamp(p)
        \/ RenewSelect(p)
        \/ RenewUpdate(p)
        \/ ReleaseClaim(p)

SpecKeys == InitKeys /\ [][NextKeys]_vars

-----------------------------------------------------------------------------
(* One client driving the service through the end-to-end sequence          *)

\* The calls of the sequence, in order: the operation and the agent it is
\* made for.
Scenario ==
    <<[op |-> "create_task", agent |-> "A"],
      [op |-> "claim_task", agent |-> "A"],
      [op |-> "claim_task", agent |-> "B"],
      [op |-> "release_claim", agent |-> "A"],
      [op |-> "claim_task", agent |-> "B"],
      [op |-> "complete_task", agent |-> "A"],
      [op |-> "get_task_status", agent |-> "none"],
      [op |-> "complete_task", agent |-> "A"]>>

\* Caller Runner carries the call in flight; the record of Client keeps, in
\* result, what the calls made so far returned, in order.
Runner == "p1"
Client == "p2"

InitScenario ==
    /\ now = StartNow
    /\ agents = {}
    /\ tasks = {}
    /\ claims = {}
    /\ findings = {}
    /\ granted = {}
    /\ call = [p \in Procs |-> IF p = Client
                               THEN [IdleCall EXCEPT !.pc = "script", !.result = <<>>]
                               ELSE IdleCall]

\* The client makes the next call of the sequence once the one before has
\* returned.
ScenarioInvoke ==
    /\ Quiet
    /\ call[Runner].pc = "idle"
    /\ Len(call[Client].result) < Len(Scenario)
    /\ LET next == Scenario[Len(call[Client].result) + 1]
       IN call' = [call EXCEPT ![Runner] =
                      [IdleCall EXCEPT !.pc = FirstPc(next.op), !.op = next.op,
                                       !.agent = next.agent,
                                       !.seen_now = IF next.op \in AgentOps THEN now ELSE 0,
                                       !.now = IF next.op \in AgentOps THEN 0 ELSE now]]
    /\ UNCHANGED <<findings, now, agents, tasks, claims, granted>>

\* The call returns to the client, which keeps what it was called with and
\* what it returned.
ScenarioReturn ==
    /\ call[Runner].pc = "done"
    /\ LET c == call[Runner]
           seen == [op |-> c.op, agent |-> c.agent, task_id |-> c.task_id,
                    ttl_minutes |-> c.ttl_minutes, arg |-> c.arg, now |-> c.now,
                    success |-> c.success, returned |-> c.returned,
                    result |-> c.result]
       IN call' = [call EXCEPT ![Runner] = IdleCall,
                               ![Client].result = Append(call[Client].result, seen)]
    /\ UNCHANGED <<findings, now, agents, tasks, claims, granted>>

NextScenario ==
    \/ Tick
    \/ ScenarioInvoke
    \/ ScenarioReturn
    \/ \E p \in Procs :
        \/ EnsureAgentKnown(p)
        \/ CreateTask(p)
        \/ CompleteTask(p)
        \/ ClaimClamp(p)
        \/ ClaimSelectTask(p)
        \/ ClaimSelect(p)
        \/ ClaimExtend(p)
        \/ ClaimOverwrite(p)
        \/ ClaimInsert(p)
        \/ ReleaseClaim(p)
        \/ StatusSelectTasks(p)
        \/ StatusSelectClaims(p)

SpecScenario == InitScenario /\ [][NextScenario]_vars

-----------------------------------------------------------------------------
(* Vocabulary of the properties                                            *)

\* The instants a stored text can denote, and the instant a text denotes.
Instants == 0..(StartNow + MaxNow + Minutes(claim_max_ttl_minutes))
InstantText == [t \in Instants |-> FormatDatetime(t)]
InstantOf(text) == CHOOSE t \in Instants : InstantText[t] = text

\* The rows of the claims table for a key.
KeyRows(task_id, aspect) == {r \in claims : r.task_id = task_id /\ r.aspect = aspect}

\* The calls that have just returned.
Done(op) == {p \in Procs : call[p].pc = "done" /\ call[p].op = op}

\* The ceiling, and a requested ttl capped by it, in ticks.
CeilingTicks == claim_max_ttl_minutes * TicksPerMinute
CappedTicks(ttl_minutes) ==
    IF ttl_minutes > claim_max_ttl_minutes THEN CeilingTicks
    ELSE ttl_minutes * TicksPerMinute

-----------------------------------------------------------------------------
(* Properties                                                              *)

\* C1: in every reachable state, under any interleaving of claim, renew,
\* release and complete calls, the claims table holds at most one row per
\* (task_id, aspect) key.
C1_OneRowPerKey ==
    \A r1, r2 \in claims :
        (r1.task_id = r2.task_id /\ r1.aspect = r2.aspect) => r1 = r2

\* C1 witness: a claim_task call's INSERT for a key met the row another
\* call had inserted meanwhile, and the table holds that one row.
C1_Witness ==
    \E p \in Done("claim_task") :
        /\ call[p].branch = "insert" /\ ~call[p].success
        /\ Cardinality(KeyRows(call[p].task_id, call[p].aspect)) = 1

\* C2: it never happens that two different agents have each been told
\* success by claim or renew for the same key with leases that both still
\* cover the current instant (not released, not expired, task not completed).
C2_AtMostOneActiveOwner ==
    \A g1, g2 \in granted :
        (g1.task_id = g2.task_id /\ g1.aspect = g2.aspect /\ g1.agent # g2.agent)
            => ~(g1.expires_at > now /\ g2.expires_at > now)

\* C3: a claim_task call that reads the key's row live (expires_at > the
\* call's now) and held by another agent returns success = false and changes
\* no row.
C3_ConflictRefused ==
    \A p \in Done("claim_task") :
        (\E r \in call[p].existing :
            r.agent # call[p].agent /\ InstantOf(r.expires_at) > call[p].now)
        => (~call[p].success /\ call[p].returned = None /\ ~call[p].wrote)

\* C3 witness: a claim_task call returned after reading a live row of
\* another agent, and that row is in the table as it was read.
C3_Witness ==
    \E p \in Done("claim_task") :
        \E r \in call[p].existing :
            /\ r.agent # call[p].agent /\ InstantOf(r.expires_at) > call[p].now
            /\ \E x \in KeyRows(call[p].task_id, call[p].aspect) :
                x.agent = r.agent /\ x.expires_at = r.expires_at

\* C4: a claim_task call that found no row for the key and whose INSERT
\* meets a row written meanwhile returns an ordinary success = false and
\* leaves the table as it is; when no row is there the INSERT adds the
\* caller's row and the call returns success = true.  So of two calls that
\* both found the key absent at most one succeeds.
C4_InsertRace ==
    [][\A p \in Procs :
        (call[p].pc = "claim_insert" /\ call'[p].pc # "claim_insert")
        => /\ call'[p].pc = "done"
           /\ IF KeyRows(call[p].task_id, call[p].aspect) # {}
              THEN ~call'[p].success /\ call'[p].returned = None /\ claims' = claims
              ELSE /\ call'[p].success
                   /\ claims' = claims \cup
                        {[task_id |-> call[p].task_id, agent |-> call[p].agent,
                          aspect |-> call[p].aspect,
                          claimed_at |-> FormatDatetime(call[p].now),
                          expires_at |-> FormatDatetime(call[p].expires_at)]}]_vars

\* C4 witness: two agents' claim_task calls both found the key absent; the
\* other agent's INSERT came first and this call returned success = false.
C4_Witness ==
    \E p \in Done("claim_task") :
        /\ call[p].branch = "insert" /\ call[p].raced /\ ~call[p].success
        /\ \E r \in KeyRows(call[p].task_id, call[p].aspect) : r.agent # call[p].agent

\* C5: of two agents' concurrent claim_task calls on a key whose row is
\* expired at most one returns success = true: a call that read the expired
\* row and then saw another agent's claim write the key first does not
\* succeed.
C5_ExpiredRaceOneWinner ==
    \A p \in Done("claim_task") :
        (call[p].branch = "overwrite" /\ call[p].raced) => ~call[p].success

\* C6: a claim_task call that reads the key's row expired (expires_at <= the
\* call's now), on a task that is open when the call reads it and still open
\* when the call returns, returns success = true and leaves the row with the
\* caller as agent, claimed_at = now and expires_at = now + the clamped ttl.
C6_ExpiredOverwritten ==
    \A p \in Done("claim_task") :
        (/\ \E r \in call[p].existing : InstantOf(r.expires_at) <= call[p].now
         /\ SelectTaskStatus(tasks, call[p].task_id) = {"open"})
        => /\ call[p].success
           /\ KeyRows(call[p].task_id, call[p].aspect) =
                {[task_id |-> call[p].task_id, agent |-> call[p].agent,
                  aspect |-> call[p].aspect,
                  claimed_at |-> FormatDatetime(call[p].now),
                  expires_at |-> FormatDatetime(call[p].now + CappedTicks(call[p].ttl_minutes))]}

C8_RenewIff ==
    \A p \in Done("renew_claim") :
        LET owned == \E r \in call[p].existing :
                        r.agent = call[p].agent /\ InstantOf(r.expires_at) > call[p].now
        IN /\ call[p].success <=> owned
           /\ ~call[p].success => (call[p].returned = None /\ ~call[p].wrote)

\* C8 witness: renew_claim returned (False, None) after reading the caller's
\* own row at the very instant it expires (expires_at = now).
C8_Witness ==
    \E p \in Done("renew_claim") :
        /\ ~call[p].success
        /\ \E r \in call[p].existing :
            r.agent = call[p].agent /\ InstantOf(r.expires_at) = call[p].now

\* C9: release_claim returns false and changes no row when the key has no
\* row, when its row is expired (the caller's own expired row included) and
\* when its row is another agent's; it returns true only after deleting a
\* row of the caller.
C9_ReleaseOnlyLiveOwn ==
    \A p \in Done("release_claim") :
        /\ call[p].success =>
             \E r \in call[p].existing : r.agent = call[p].agent
        /\ (\/ call[p].existing = {}
            \/ \E r \in call[p].existing :
                 r.agent # call[p].agent \/ InstantOf(r.expires_at) <= now)
           => (~call[p].success /\ ~call[p].wrote)

\* C10: the expires_at a successful claim_task or renew_claim returns never
\* exceeds the call's now + claim_max_ttl_minutes, and is now + ttl_minutes
\* when ttl_minutes is at or below the ceiling; an overlong ttl is not
\* rejected.
C10_TtlCapped ==
    \A p \in Done("claim_task") \cup Done("renew_claim") :
        call[p].success
        => /\ call[p].returned # None
           /\ call[p].returned[1] <= call[p].now + CeilingTicks
           /\ call[p].ttl_minutes <= claim_max_ttl_minutes
                => call[p].returned[1] = call[p].now + call[p].ttl_minutes * TicksPerMinute

\* C10 witness: a call with ttl_minutes above the ceiling returned success
\* with expires_at = now + the ceiling.
C10_Witness ==
    \E p \in Done("claim_task") \cup Done("renew_claim") :
        /\ call[p].ttl_minutes > claim_max_ttl_minutes
        /\ call[p].success
        /\ call[p].returned = Some(call[p].now + CeilingTicks)

\* C11: a claim_task call whose SELECT on tasks finds no row for the task, or
\* a row whose status is not open, returns (False, None) there and then and
\* creates or changes no claim row.
C11_ClosedTaskRefused ==
    [][\A p \in Procs :
        (/\ call[p].pc = "claim_select_task"
         /\ call'[p].pc # "claim_select_task"
         /\ ~\E r \in tasks : r.id = call[p].task_id /\ r.status = "open")
        => /\ call'[p].pc = "done"
           /\ ~call'[p].success /\ call'[p].returned = None /\ ~call'[p].wrote
           /\ claims' = claims]_vars

\* C11 witness: a claim_task call on a completed task has returned failure
\* without reading the claims table.
C11_Witness ==
    \E p \in Done("claim_task") :
        /\ ~call[p].success /\ call[p].branch = "none"
        /\ \E r \in tasks : r.id = call[p].task_id /\ r.status = "completed"

\* C13: in every reachable state a task whose status is completed has no
\* live claim row (no row of the task with expires_at > now).
C13_CompletedHasNoLiveClaim ==
    \A t \in tasks :
        t.status = "completed"
        => \A r \in claims : r.task_id = t.id => InstantOf(r.expires_at) <= now

\* C15: a claim_task call by another agent whose now has reached the row's
\* expires_at is not refused: it returns success = true; and no row carries
\* an expires_at later than the TTL ceiling after the current instant, so
\* every lease reaches that point without any sweep.
C15_StaleLeaseYields ==
    /\ \A p \in Done("claim_task") :
         (\E r \in call[p].existing :
             r.agent # call[p].agent /\ InstantOf(r.expires_at) <= call[p].now)
         => (call[p].success /\ call[p].returned # None)
    /\ \A r \in claims : InstantOf(r.expires_at) <= now + CeilingTicks

\* C15 witness: an agent's claim_task on a key whose row another agent let
\* expire returned success, and the row now names the caller.
C15_Witness ==
    \E p \in Done("claim_task") :
        /\ call[p].success
        /\ \E r \in call[p].existing :
             r.agent # call[p].agent /\ InstantOf(r.expires_at) <= call[p].now
        /\ \E x \in KeyRows(call[p].task_id, call[p].aspect) :
             x.agent = call[p].agent

\* C17: every step keeps every task row, leaves its status as it is or
\* changes it from open to completed, and adds rows only with status open;
\* no status other than open and completed appears.
C17_StatusOnlyForward ==
    [][/\ \A r \in tasks :
            \E r2 \in tasks' :
                /\ r2.id = r.id
                /\ \/ r2.status = r.status
                   \/ r.status = "open" /\ r2.status = "completed"
       /\ \A r2 \in tasks' :
            /\ r2.status \in {"open", "completed"}
            /\ (~\E r \in tasks : r.id = r2.id) => r2.status = "open"]_vars

\* C17 witness: complete_task has just set an open task's status to
\* completed.
C17_Witness ==
    \E p \in Done("complete_task") :
        /\ call[p].success
        /\ \E r \in tasks : r.id = call[p].task_id /\ r.status = "completed"

\* C19: every step keeps every agent row with its id, and no step decreases
\* an agent's last_seen_at.
C19_LastSeenMonotone ==
    [][\A r \in agents :
        \E r2 \in agents' :
            /\ r2.id = r.id
            /\ InstantOf(r2.last_seen_at) >= InstantOf(r.last_seen_at)]_vars

\* C12: complete_task on a task that is open returns true, leaves the task
\* completed and no claim row of the task, so that the claims get_task_status
\* selects for the task right after are none; on a task that is not open
\* (a second complete included) it returns false, without an error, and
\* changes neither table.
C12_CompleteClearsClaims ==
    [][\A p \in Procs :
        (call[p].pc = "complete_update" /\ call'[p].pc # "complete_update")
        => LET t == call'[p].task_id
           IN /\ call'[p].pc = "done" /\ ~call'[p].error
              /\ IF \E r \in tasks : r.id = t /\ r.status = "open"
                 THEN /\ call'[p].success
                      /\ \A r \in tasks' : r.id = t => r.status = "completed"
                      /\ \A r \in claims' : r.task_id # t
                      /\ SelectLiveTaskClaims(claims', t, FormatDatetime(now')) = {}
                 ELSE /\ ~call'[p].success
                      /\ tasks' = tasks /\ claims' = claims]_vars

\* C12 witness: complete_task returned true on a task that had a live claim
\* row, and the table holds no row of the task.
C12_Witness ==
    \E p \in Done("complete_task") :
        /\ call[p].success
        /\ \E r \in call[p].existing : InstantOf(r.expires_at) > now
        /\ \A r \in claims : r.task_id # call[p].task_id

\* C14: a get_task_status call running concurrently with complete_task
\* reports each task either as open with the live claims the task had when
\* the call read it, or as completed with no claims.
C14_ReaderSeesAtomicComplete ==
    \A p \in Done("get_task_status") :
        \A e \in call[p].result :
            /\ e.status = "open"
               => {[task_id |-> c.task_id, agent |-> c.agent, aspect |-> c.aspect] :
                      c \in e.claims}
                  = {r \in call[p].existing : r.task_id = e.id}
            /\ e.status = "completed" => e.claims = {}

\* C16: get_task_status selects the task with the given id whatever its
\* status, or exactly the open tasks when no id is given; it reports those
\* tasks and no others, and no claim it reports has expires_at <= the call's
\* now.
C16_StatusHidesExpired ==
    [][\A p \in Procs :
        /\ (call[p].pc = "status_tasks" /\ call'[p].pc # "status_tasks")
           => {r.id : r \in call'[p].rows}
              = (IF call'[p].arg = None
                 THEN {t.id : t \in {x \in tasks : x.status = "open"}}
                 ELSE {t.id : t \in {x \in tasks : x.id = call'[p].arg[1]}})
        /\ (call[p].op = "get_task_status" /\ call[p].pc # "done" /\ call'[p].pc = "done")
           => /\ {e.id : e \in call'[p].result} = {r.id : r \in call'[p].rows}
              /\ \A e \in call'[p].result :
                    /\ [id |-> e.id, status |-> e.status] \in call'[p].rows
                    /\ \A c \in e.claims : c.expires_at > call'[p].now]_vars

\* C16 witness: get_task_status reported a task without claims while the
\* claims table holds a row of the task that expired at or before the
\* call's now.
C16_Witness ==
    \E p \in Done("get_task_status") :
        \E e \in call[p].result :
            /\ e.claims = {}
            /\ \E r \in claims :
                r.task_id = e.id /\ InstantOf(r.expires_at) <= call[p].now

\* C18: in every operation that takes an agent (create_task, complete_task,
\* claim_task, renew_claim, release_claim, post_finding) the agent has a row
\* in the registry at every point after the operation's first step, that is
\* before any of its statements on tasks, claims or findings and when it has
\* returned, with success or refused.
C18_AgentRegisteredFirst ==
    \A p \in Procs :
        (call[p].op \in AgentOps /\ call[p].pc \notin {"idle", "ensure", "end"})
        => \E r \in agents : r.id = call[p].agent

\* C18 witness: an operation of an agent the registry did not know returned
\* refused, and the agent has a row.
C18_Witness ==
    \E p \in Procs :
        /\ call[p].pc = "done" /\ call[p].op \in AgentOps
        /\ ~call[p].success /\ call[p].agent = "B"
        /\ \E r \in agents : r.id = "B"

\* C20: every ensure_agent_known step goes on to the operation's next
\* statement without an error and changes the agents table in exactly one
\* row: it adds the row (id, NULL, NULL, NULL, first_seen_at = last_seen_at =
\* the call's now) when the id has no row, and otherwise sets last_seen_at of
\* the id's row and nothing else; the table has one row per id afterwards.
C20_EnsureKnownUpsert ==
    [][\A p \in Procs :
        (call[p].pc = "ensure" /\ call'[p].pc # "ensure")
        => LET id == call[p].agent
               nowText == FormatDatetime(call[p].seen_now)
           IN /\ call'[p].pc \notin {"done", "end"} /\ ~call'[p].error
              /\ IF \E r \in agents : r.id = id
                 THEN agents' = {IF r.id = id THEN [r EXCEPT !.last_seen_at = nowText]
                                 ELSE r : r \in agents}
                 ELSE agents' = agents \cup
                        {[id |-> id, name |-> None, type |-> None, metadata |-> None,
                          first_seen_at |-> nowText, last_seen_at |-> nowText]}
              /\ Cardinality({r \in agents' : r.id = id}) = 1]_vars

\* C20 witness: ensure_agent_known has run for an agent that register_agent
\* had given a name, a type and metadata, at a later instant than the row's
\* first_seen_at.
C20_Witness ==
    \E p \in Procs :
        /\ call[p].pc = "finding_clock"
        /\ \E r \in agents :
            /\ r.id = call[p].agent
            /\ r.name # None /\ r.type # None /\ r.metadata # None
            /\ InstantOf(r.last_seen_at) > InstantOf(r.first_seen_at)

\* C21: every register_agent call returns (True, created) without an error,
\* and created is true exactly when the agents table had no row with the id
\* when the call looked for it.
C21_CreatedIffNew ==
    \A p \in Done("register_agent") :
        /\ ~call[p].error
        /\ call[p].success
        /\ call[p].result = <<TRUE, ~call[p].exists>>

\* C22: a register_agent call that finds the agent's row writes name, type
\* and metadata where the caller supplies them, keeps the stored value where
\* the caller omits them, leaves first_seen_at alone and sets last_seen_at to
\* the call's now.
C22_RegisterCoalesce ==
    [][\A p \in Procs :
        (call[p].pc = "register_write" /\ call'[p].pc = "done" /\ call[p].exists)
        => \E r \in agents :
            /\ r.id = call[p].agent
            /\ LET c == call'[p]
                   row == [id |-> r.id,
                           name |-> IF c.name # None THEN c.name ELSE r.name,
                           type |-> IF c.agent_type # None THEN c.agent_type ELSE r.type,
                           metadata |-> IF c.metadata # None
                                        THEN Some(<<"json", c.metadata[1]>>)
                                        ELSE r.metadata,
                           first_seen_at |-> r.first_seen_at,
                           last_seen_at |-> FormatDatetime(c.now)]
               IN agents' = (agents \ {r}) \cup {row}]_vars

\* The finding rows list_findings returned, by position.
ListedIds(c) == {c.result[i].id : i \in DOMAIN c.result}

\* C23: no step of any operation, complete_task included, removes or changes
\* a row of findings; and list_findings without since returns every row of
\* the task, with the id, agent, summary and knowledge_id stored and with the
\* instant the row's created_at was written from.
C23_FindingsAppendOnly ==
    [][/\ \A f \in findings : f \in findings'
       /\ \A p \in Procs :
            (call[p].pc = "list_select" /\ call'[p].pc = "done" /\ call'[p].arg = None)
            => \A f \in findings :
                 f.task_id = call'[p].task_id
                 => \E i \in DOMAIN call'[p].result :
                       call'[p].result[i] =
                          [id |-> f.id, task_id |-> f.task_id, agent |-> f.agent,
                           summary |-> f.summary, knowledge_id |-> f.knowledge_id,
                           created_at |-> Some(InstantOf(f.created_at))]]_vars

\* C23 witness: list_findings returned two findings of a completed task, one
\* of them posted by the other caller.
C23_Witness ==
    \E p \in Done("list_findings") :
        /\ call[p].arg = None
        /\ Len(call[p].result) = 2
        /\ ListedIds(call[p]) \cap Procs # {}
        /\ \E t \in tasks : t.id = call[p].task_id /\ t.status = "completed"

C25_SinceFilter ==
    \A p \in Done("list_findings") :
        call[p].arg # None
        => \A f \in findings :
             f.task_id = call[p].task_id
             => (f.id \in ListedIds(call[p])
                    <=> InstantOf(f.created_at) > call[p].arg[1].instant)

\* C26 as stated: a finding of the task whose created_at is the instant of
\* since is in the list list_findings returns.
C26_SinceInclusive ==
    \A p \in Done("list_findings") :
        call[p].arg # None
        => \A f \in findings :
             (f.task_id = call[p].task_id
                /\ InstantOf(f.created_at) = call[p].arg[1].instant)
             => f.id \in ListedIds(call[p])

\* C26 amended: since is an exclusive lower bound; a finding whose stored
\* created_at is the timestamp since is written as (the same instant with the
\* same offset) is not in the list list_findings returns.
C26_SinceExclusive ==
    \A p \in Done("list_findings") :
        call[p].arg # None
        => \A f \in findings :
             (f.task_id = call[p].task_id /\ f.created_at = FormatSince(call[p].arg[1]))
             => f.id \notin ListedIds(call[p])

\* C26 witness: list_findings was given the created_at of one of the task's
\* findings as since and returned a later finding of the task.
C26_Witness ==
    \E p \in Done("list_findings") :
        /\ call[p].arg # None
        /\ \E f \in findings :
            f.task_id = call[p].task_id /\ f.created_at = FormatSince(call[p].arg[1])
        /\ call[p].result # <<>>

\* C29: post_finding's INSERT succeeds for every task_id and knowledge_id,
\* whether or not a task has that id or is open: it returns without an error
\* an id no stored finding has and adds exactly the row (id, task_id, agent,
\* summary, knowledge_id, now); and list_findings without since returns every
\* finding stored with the task_id it is given.
C29_PostUnvalidated ==
    [][\A p \in Procs :
        /\ (call[p].pc = "finding_insert" /\ call'[p].pc = "done")
           => /\ call'[p].success /\ ~call'[p].error
              /\ \A f \in findings : f.id # call'[p].result
              /\ \E f \in findings' :
                   /\ f.id = call'[p].result
                   /\ f.task_id = call[p].task_id /\ f.knowledge_id = call[p].arg
                   /\ f.agent = call[p].agent
                   /\ InstantOf(f.created_at) = call[p].now
                   /\ findings' = findings \cup {f}
        /\ (call[p].pc = "list_select" /\ call'[p].pc = "done" /\ call'[p].arg = None)
           => \A f \in findings :
                f.task_id = call'[p].task_id => f.id \in ListedIds(call'[p])]_vars

\* C29 witness: list_findings returned a finding the other caller posted
\* with a knowledge_id for a task id that no task has.
C29_Witness ==
    \E p \in Done("list_findings") :
        /\ \A t \in tasks : t.id # call[p].task_id
        /\ \E i \in DOMAIN call[p].result :
            /\ call[p].result[i].id \in Procs
            /\ call[p].result[i].knowledge_id # None

\* C30: every step of get_stats leaves agents, tasks, claims and findings as
\* they are; its first SELECT counts the rows of agents, its second the
\* tasks whose status is open, its third the claims whose expires_at is an
\* instant after the call's now, and the dict returned holds these three
\* counts.
C30_StatsCounts ==
    [][\A p \in Procs :
        (call[p].op = "get_stats" /\ call[p].pc # "done" /\ call'[p] # call[p])
        => LET c == call[p]
               d == call'[p]
           IN /\ agents' = agents /\ tasks' = tasks
              /\ claims' = claims /\ findings' = findings
              /\ c.pc = "stats_agents"
                   => d.result.agents = Cardinality(agents)
              /\ c.pc = "stats_tasks"
                   => /\ d.result.agents = c.result.agents
                      /\ d.result.active_tasks
                            = Cardinality({t \in tasks : t.status = "open"})
              /\ c.pc = "stats_claims"
                   => /\ d.pc = "done" /\ d.success /\ ~d.error
                      /\ d.result.agents = c.result.agents
                      /\ d.result.active_tasks = c.result.active_tasks
                      /\ d.result.open_claims
                            = Cardinality({r \in claims : InstantOf(r.expires_at) > c.now})]_vars

\* C30 witness: get_stats returned one agent, one open task and no open
\* claim while the claims table holds an expired row.
C30_Witness ==
    \E p \in Done("get_stats") :
        /\ call[p].result = [agents |-> 1, active_tasks |-> 1, open_claims |-> 0]
        /\ claims # {}

\* The tables other than agents are the same before and after the step.
TablesKept == tasks' = tasks /\ claims' = claims /\ findings' = findings

\* C27 as stated: a claim_task, renew_claim or release_claim call that
\* returned false ended without an error and changed nothing in the store,
\* the agents table included.
C27_DeniedChangesNothing ==
    \A p \in Done("claim_task") \cup Done("renew_claim") \cup Done("release_claim") :
        ~call[p].success
        => /\ ~call[p].error /\ call[p].returned = None
           /\ ~call[p].wrote
           /\ ~call[p].touched

\* C27 amended: no step of claim_task, renew_claim or release_claim raises;
\* the only step of a call that changes the store without returning success
\* is its ensure_agent_known, which changes nothing but the row of the
\* calling agent in agents; the step on which a call returns false leaves
\* agents, tasks, claims and findings as they are; and a call returns false
\* when the task is not open (claim), when another agent's live row is
\* fetched (claim), when no live row of the agent is fetched (renew) and
\* when no row of the key belongs to the agent (release).
C27_DeniedLeavesTables ==
    [][\A p \in Procs :
        LET c == call[p]
            d == call'[p]
            denied == d.pc = "done" /\ ~d.success
        IN (c.op \in LeaseOps /\ d.pc # c.pc /\ c.pc # "done")
           => /\ ~d.error
              /\ c.pc = "ensure"
                   => /\ TablesKept
                      /\ {r \in agents' : r.id # c.agent} = {r \in agents : r.id # c.agent}
              /\ (c.pc # "ensure" /\ d.pc # "done") => (TablesKept /\ agents' = agents)
              /\ denied => (TablesKept /\ agents' = agents /\ d.returned = None)
              /\ (c.pc = "claim_select_task"
                    /\ ~\E t \in tasks : t.id = c.task_id /\ t.status = "open") => denied
              /\ (c.pc = "claim_select"
                    /\ \E r \in KeyRows(c.task_id, c.aspect) :
                         r.agent # c.agent /\ InstantOf(r.expires_at) > c.now) => denied
              /\ (c.pc = "renew_select"
                    /\ ~\E r \in KeyRows(c.task_id, c.aspect) :
                          r.agent = c.agent /\ InstantOf(r.expires_at) > c.now) => denied
              /\ (c.pc = "release_delete"
                    /\ ~\E r \in KeyRows(d.task_id, d.aspect) : r.agent = c.agent)
                   => denied]_vars

\* C27 witness: a claim_task call of an agent the registry did not know lost
\* the race for a new row and returned false; the agent has a row.
C27_Witness ==
    \E p \in Done("claim_task") :
        /\ ~call[p].success /\ call[p].branch = "insert"
        /\ call[p].agent = "B" /\ call[p].touched
        /\ \E r \in agents : r.id = "B"

\* C28: a step on which a caller abandons its call changes no table; claims
\* changes by a step of claim_task or renew_claim only when that step is the
\* commit on which the call returns success, so no row of a call abandoned
\* before its commit is in the table; and tasks or claims change by a step
\* of complete_task only on its commit, which leaves the task completed and
\* no claim row of the task: the status is never flipped while the rows
\* remain, nor the rows deleted while the task is open.
C28_AbandonLeavesCommitted ==
    [][\A p \in Procs :
        LET c == call[p]
            d == call'[p]
        IN d.pc # c.pc
           => /\ d.pc = "aborted" => (TablesKept /\ agents' = agents)
              /\ (c.op \in {"claim_task", "renew_claim"} /\ ~TablesKept)
                   => (d.pc = "done" /\ d.success /\ tasks' = tasks)
              /\ (c.op = "complete_task" /\ ~TablesKept)
                   => /\ d.pc = "done" /\ d.success
                      /\ \A t \in tasks' : t.id = d.task_id => t.status = "completed"
                      /\ \A r \in claims' : r.task_id # d.task_id]_vars

\* C28 witness: complete_task was abandoned after its UPDATE and its DELETE,
\* before the commit; the task is open and its claim row is in the table.
C28_Witness ==
    \E p \in Procs :
        /\ call[p].pc = "aborted" /\ call[p].op = "complete_task"
        /\ call[p].left_at = "complete_commit"
        /\ \E t \in tasks : t.status = "open" /\ \E r \in claims : r.task_id = t.id

\* C39: Claim.is_expired agrees with the liveness test of claim_task
\* (existing_expires > now) and of the queries (expires_at > ? on the stored
\* text) for every pair (now, expires_at): is_expired is true exactly when
\* expires_at <= now, the boundary now = expires_at included.
C39_IsExpiredAgrees ==
    \A p \in Procs :
        LET c == call[p]
        IN (c.pc = "done" /\ c.op = "is_expired")
           => /\ c.result <=> (c.expires_at <= c.now)
              /\ c.result <=> ~IsLive(Some(c.expires_at), c.now)
              /\ c.result <=> ~TextGT(InstantText[c.expires_at], InstantText[c.now])

\* C38: in every reachable state every agent row has first_seen_at <=
\* last_seen_at, and no step changes the first_seen_at of a row that exists.
C38_FirstSeenKept ==
    /\ [](\A r \in agents : InstantOf(r.first_seen_at) <= InstantOf(r.last_seen_at))
    /\ [][\A r \in agents : \A r2 \in agents' :
            r2.id = r.id => r2.first_seen_at = r.first_seen_at]_vars

\* C37: with register_agent calls and auto-registering operations running
\* concurrently for an agent id, no register_agent or ensure_agent_known step
\* ends in an error, each leaves exactly one agent row for the id, and a
\* register_agent that reports created = true is the one step that inserted
\* the id's row (so at most one call reports it).
C37_ConcurrentRegister ==
    [][\A p \in Procs :
        LET c == call[p]
            d == call'[p]
        IN (c.pc \in {"register_write", "ensure"} /\ d.pc # c.pc)
           => /\ ~d.error
              /\ Cardinality({r \in agents' : r.id = c.agent}) = 1
              /\ (c.pc = "register_write" /\ d.result = <<TRUE, TRUE>>)
                   => \A r \in agents : r.id # c.agent]_vars

\* The callers whose complete_task on task t has returned.
Completed(t) ==
    {p \in Procs : call[p].pc \in {"done", "end"} /\ call[p].op = "complete_task"
                   /\ call[p].task_id = t}

\* C36: among the complete_task calls on a task that was open, concurrent or
\* one after the other, by the same or by different agents, exactly one
\* returns true, whoever the calling agent is; every other one returns false
\* without an error and changes neither the tasks nor the claims table.
C36_OneCompleteWins ==
    /\ [](\A t \in TaskIds :
            LET won == {p \in Completed(t) : call[p].success}
            IN /\ \A p \in Completed(t) : ~call[p].error
               /\ (Completed(t) # {} /\ \E r \in tasks : r.id = t)
                    => Cardinality(won) = 1)
    /\ [][\A p \in Procs :
            (call[p].pc = "complete_update" /\ call'[p].pc = "done")
            => /\ call'[p].success
                    <=> \E r \in tasks : r.id = call'[p].task_id /\ r.status = "open"
               /\ ~call'[p].success => (tasks' = tasks /\ claims' = claims)]_vars

\* C36 witness: both callers' complete_task on T1 have returned, one true and
\* one false, and the one that returned true was called by "B", which neither
\* created the task nor holds its claim.
C36_Witness ==
    \E p \in Procs, q \in Procs :
        /\ p \in Completed("T1") /\ q \in Completed("T1")
        /\ call[p].success /\ call[p].agent = "B"
        /\ ~call[q].success
        /\ \A r \in tasks : r.created_by = "A"

\* C35: every claim_task or renew_claim call that returns success returns an
\* expires_at strictly later than the now it read, whatever ttl_minutes was
\* requested, zero and negative values included.
C35_SuccessIsLive ==
    \A p \in Done("claim_task") \cup Done("renew_claim") :
        call[p].success
        => /\ call[p].returned # None
           /\ call[p].returned[1] > call[p].now

\* C32: the write of a renewal, renew_claim's or that of claim_task's
\* same-agent branch, sets expires_at of the key's row to the call's
\* expires_at and changes nothing else: no agent, no claimed_at, no other row;
\* a row gets a claimed_at only from claim_task's insert (a first claim) or
\* from its overwrite of a row it read as expired, and that claimed_at is the
\* call's now.
C32_RenewalKeepsStamp ==
    [][/\ \A p \in Procs :
            LET c == call[p]
            IN (c.pc \in {"claim_extend", "renew_update"} /\ call'[p].pc = "done")
               => /\ call'[p].success
                  /\ claims' =
                        {IF r.task_id = c.task_id /\ r.aspect = c.aspect
                         THEN [task_id |-> r.task_id, aspect |-> r.aspect,
                               agent |-> r.agent, claimed_at |-> r.claimed_at,
                               expires_at |-> InstantText[c.expires_at]]
                         ELSE r : r \in claims}
       /\ \A r2 \in claims' :
            (\A r \in claims : ~(r.task_id = r2.task_id /\ r.aspect = r2.aspect
                                 /\ r.claimed_at = r2.claimed_at))
            => \E p \in Procs :
                LET c == call[p]
                IN /\ c.pc \in {"claim_insert", "claim_overwrite"}
                   /\ call'[p].pc = "done"
                   /\ c.task_id = r2.task_id /\ c.aspect = r2.aspect
                   /\ r2.agent = c.agent
                   /\ r2.claimed_at = InstantText[c.now]
                   /\ c.pc = "claim_insert" => c.existing = {}
                   /\ c.pc = "claim_overwrite"
                        => \A e \in c.existing : InstantOf(e.expires_at) <= c.now]_vars

\* C32 witness: the holder's renew_claim has extended its live row at a later
\* instant than the row was claimed at, and the row keeps that claimed_at.
C32_Witness ==
    \E p \in Done("renew_claim") :
        /\ call[p].success /\ call[p].wrote
        /\ \E r \in KeyRows(call[p].task_id, call[p].aspect) :
            /\ r.agent = call[p].agent
            /\ r.expires_at = InstantText[call[p].expires_at]
            /\ InstantOf(r.claimed_at) < call[p].now
            /\ \E e \in call[p].existing : e.agent = r.agent /\ e.expires_at # r.expires_at

\* The claim rows of the keys other than (task_id, aspect), and of the tasks
\* other than task_id.
OtherKeys(cl, task_id, aspect) == {r \in cl : ~(r.task_id = task_id /\ r.aspect = aspect)}
OtherTasks(cl, task_id) == {r \in cl : r.task_id # task_id}

\* C33: every step of claim_task, renew_claim and release_claim on a key
\* leaves the claim rows of every other key as they are, and every step of
\* complete_task on a task leaves the claim rows of every other task as they
\* are.
C33_OtherKeysKept ==
    [][\A p \in Procs :
        LET c == call[p]
            d == call'[p]
        IN d.pc # c.pc
           => /\ c.op \in LeaseOps
                   => OtherKeys(claims', d.task_id, d.aspect)
                        = OtherKeys(claims, d.task_id, d.aspect)
              /\ c.op = "complete_task"
                   => OtherTasks(claims', d.task_id) = OtherTasks(claims, d.task_id)]_vars

\* C33 witness: A's claim_task on (T1, research) has just returned success
\* while B's claim on (T1, implementation) is live: two aspects of one task
\* are live-held by different agents.
C33_Witness ==
    \E p \in Done("claim_task") :
        /\ call[p].success /\ call[p].agent = "A" /\ call[p].branch = "overwrite"
        /\ \E r \in KeyRows("T1", "research") :
            r.agent = "A" /\ InstantOf(r.expires_at) > now
        /\ \E r \in KeyRows("T1", "implementation") :
            r.agent = "B" /\ InstantOf(r.expires_at) > now

\* C34: whenever renew_claim, or claim_task on its same-agent branch, returns
\* success, the key's row exists right after the call's write, names the
\* calling agent and carries the returned expires_at, whatever other calls
\* ran between the call's read of the row and its update.
C34_RenewedRowIsCallers ==
    [][\A p \in Procs :
        LET c == call[p]
            d == call'[p]
        IN (c.pc \in {"claim_extend", "renew_update"} /\ d.pc = "done" /\ d.success)
           => \E r \in claims' :
                /\ r.task_id = c.task_id /\ r.aspect = c.aspect
                /\ r.agent = c.agent
                /\ d.returned # None
                /\ r.expires_at = InstantText[d.returned[1]]]_vars

\* What the client has seen of the end-to-end sequence so far, and whether
\* every lease it asked for up to call k outlasts the run of the sequence.
Seen == call[Client].result
LeasesOutlast(k) ==
    \A j \in 1..k :
        Seen[j].op = "claim_task" => Minutes(ClampTtl(Seen[j].ttl_minutes)) > MaxNow

\* C31: in the sequence create task T by A, claim research by A, claim
\* research by B, release research by A, claim research by B, complete T by
\* A, get_task_status, complete T by A, with leases that outlast the
\* sequence: A's claim succeeds with expires_at = now + ttl, B's first claim
\* fails, the release returns true, B's second claim succeeds, the first
\* complete succeeds, get_task_status then shows no claim (T completed with
\* an empty claim list when asked for T), and the second complete fails.
C31_EndToEnd ==
    \A k \in DOMAIN Seen :
        LeasesOutlast(k)
        => LET s == Seen[k]
           IN /\ k = 1 => s.success
              /\ k = 2 => /\ s.success
                          /\ s.returned = Some(s.now + Minutes(ClampTtl(s.ttl_minutes)))
              /\ k = 3 => (~s.success /\ s.returned = None)
              /\ k = 4 => s.success
              /\ k = 5 => s.success
              /\ k = 6 => s.success
              /\ k = 7 => /\ \A e \in s.result : e.claims = {}
                          /\ s.arg # None
                               => s.result = {[id |-> Seen[1].task_id, status |-> "completed",
                                               claims |-> {}]}
              /\ k = 8 => ~s.success

\* C31 witness: the whole sequence has run, with leases that outlast it, the
\* status asked for task T, and the clock advanced on the way.
C31_Witness ==
    /\ Len(Seen) = Len(Scenario)
    /\ LeasesOutlast(Len(Seen))
    /\ Seen[7].arg = Some(Seen[1].task_id)
    /\ Seen[3].now > Seen[2].now
    /\ now = StartNow + MaxNow

====
